---- MODULE Spec2Model ----
(***************************************************************************)
(* A model of the chapter programs of the Go course.                       *)
(*                                                                         *)
(* Chapter 10 (src/10-error-handling/main.go) is modelled as a state       *)
(* machine: `pc` is the position of main, `frame` the activation record of *)
(* the helper function main has called (retryOperation, smartRetry,        *)
(* getDataWithFallback), `stdout` the text written to standard output.     *)
(*                                                                         *)
(* Go values:                                                              *)
(*   - an error value is a record whose field t is its dynamic type; a     *)
(*     pointer type also carries addr, the address of the allocation, so   *)
(*     that == on two error values is the comparison of type and address;  *)
(*   - a string the program only prints or compares is a TLA+ string; a    *)
(*     string whose length or characters the program inspects (User.Name,  *)
(*     User.Email) is a sequence of one-character strings, Str flattens it *)
(*     for printing;                                                       *)
(*   - the pictographs of the section titles are left out of the text;     *)
(*   - an object reached through a pointer, a slice or a map lives in      *)
(*     `heap` at its address.                                              *)
(*                                                                         *)
(* The other chapters are modelled function by function:                   *)
(*   - chapter 3 (src/unnamed/part_002): the defer statements, UnitSpec;   *)
(*   - chapter 6 (src/06-maps/main.go): range over a map, MapsSpec;        *)
(*   - chapter 8 (src/08-interfaces/main.go): sortInts and sortStrings,    *)
(*     SortSpec;                                                           *)
(*   - chapter 9 (src/unnamed/part_000): method receivers, the singleton   *)
(*     and the copies of a Person, PointerSpec; the LRU cache of the       *)
(*     chapter's text (src/09-pointers/README.md), CacheSpec.              *)
(***************************************************************************)
EXTENDS Integers, Sequences, FiniteSets, TLC

VARIABLES
    pc,        \* position of main (or of the harness that calls one function)
    frame,     \* activation record of the function being called, NoFrame if none
    locals,    \* local variables of the section of main being run
    stdout,    \* standard output: a sequence of lines, the last one still open
    stderr,    \* messages written by log.Printf (the time stamp left out)
    draws,     \* for each call of simulateUnreliableOperation: did it fail
    nextAddr,  \* the next address the allocator hands out
    run,       \* 1 for the first run of the program, 2 for the second
    prevOut,   \* standard output of the first run, once it has finished
    prevDraws, \* draws of the first run, once it has finished
    heap,      \* chapter 9: the objects reached through pointers, by address
    configInstance  \* chapter 9: the package-level variable configInstance

vars == <<pc, frame, locals, stdout, stderr, draws, nextAddr, run, prevOut, prevDraws,
          heap, configInstance>>

---------------------------------------------------------------------------
(* Bounds of the model *)

\* the deepest fmt.Errorf("...: %w", err) nesting of an error handed to a function
MaxWrapDepth == 2
\* the largest maxAttempts a caller passes to retryOperation
MaxAttemptsArg == 3

---------------------------------------------------------------------------
(* Pointers *)

\* the nil pointer; the allocator hands out the addresses 1, 2, ...
NilPtr == 0

\* no object has been allocated
EmptyHeap == <<>>

----------------------------------------------------------------------------
(* Error values *)

Nil == [t |-> "nil"]

\* errors.New(text): a fresh *errorString at address a
New(text, a) == [t |-> "errorString", addr |-> a, s |-> text]

NewValidationError(field, message, value, a) ==
    [t |-> "ValidationError", addr |-> a,
     Field |-> field, Message |-> message, Value |-> value]

NewDatabaseError(operation, table, message, code, a) ==
    [t |-> "DatabaseError", addr |-> a,
     Operation |-> operation, Table |-> table, Message |-> message, Code |-> code]

\* Timeout in seconds
NewNetworkError(url, timeout, message, a) ==
    [t |-> "NetworkError", addr |-> a,
     URL |-> url, Timeout |-> timeout, Message |-> message]

NewAggregatedError(errs, a) == [t |-> "AggregatedError", addr |-> a, Errors |-> errs]

RECURSIVE Join(_, _)
\* strings.Join(elems, sep)
Join(elems, sep) ==
    IF Len(elems) = 0 THEN ""
    ELSE IF Len(elems) = 1 THEN elems[1]
    ELSE elems[1] \o sep \o Join(Tail(elems), sep)

RECURSIVE Str(_)
\* the text of a string held as a sequence of characters
Str(cs) == IF Len(cs) = 0 THEN "" ELSE cs[1] \o Str(Tail(cs))

\* strings.Contains(cs, c) for a one-character c
Contains(cs, c) == \E i \in 1..Len(cs) : cs[i] = c

RECURSIVE ErrorText(_)
\* err.Error(), by the dynamic type of err
ErrorText(e) ==
    CASE e.t = "errorString" -> e.s
      [] e.t = "wrapError" -> e.msg
      [] e.t = "ValidationError" ->
            "validation failed for " \o e.Field \o ": " \o e.Message
                \o " (value: " \o ToString(e.Value) \o ")"
      [] e.t = "DatabaseError" ->
            "database error in " \o e.Operation \o " on table " \o e.Table \o ": "
                \o e.Message \o " (code: " \o ToString(e.Code) \o ")"
      [] e.t = "NetworkError" ->
            "network error for " \o e.URL \o ": " \o e.Message
                \o " (timeout: " \o ToString(e.Timeout) \o "s)"
      [] e.t = "AggregatedError" ->
            IF Len(e.Errors) = 0 THEN "no errors"
            ELSE "multiple errors (" \o ToString(Len(e.Errors)) \o "): "
                    \o Join([i \in 1..Len(e.Errors) |-> ErrorText(e.Errors[i])], "; ")
      [] e.t = "SimpleError" -> e.Message
      [] e.t = "StringError" -> e.s
      [] e.t = "CodeError" -> "error code: " \o ToString(e.c)

\* fmt's %v of an error value
FmtV(e) == IF e = Nil THEN "<nil>" ELSE ErrorText(e)

\* fmt.Errorf(prefix + "%w", err): a fresh *wrapError whose message is built
\* when the error is made
Errorf_w(prefix, err, a) ==
    [t |-> "wrapError", addr |-> a, msg |-> prefix \o FmtV(err), err |-> err]

\* errors.Unwrap(err): only *wrapError has an Unwrap method
Unwrap(e) == IF e.t = "wrapError" THEN e.err ELSE Nil

\* err == target for two error values: same dynamic type, same pointer
SameError(a, b) ==
    /\ a.t = b.t
    /\ (a = Nil \/ a.addr = b.addr)

RECURSIVE Is(_, _)
\* errors.Is(err, target)
Is(err, target) ==
    IF err = Nil \/ target = Nil THEN err = target
    ELSE IF SameError(err, target) THEN TRUE
    ELSE IF Unwrap(err) = Nil THEN FALSE
    ELSE Is(Unwrap(err), target)

RECURSIVE As(_, _)
\* errors.As(err, &target) for a target of pointer type ty: the first error of
\* the chain of that type, Nil if there is none (As then returns false)
As(err, ty) ==
    IF err = Nil THEN Nil
    ELSE IF err.t = ty THEN err
    ELSE As(Unwrap(err), ty)

IsValidationError(err) == As(err, "ValidationError") # Nil

IsDatabaseError(err) == As(err, "DatabaseError") # Nil

IsNetworkError(err) == As(err, "NetworkError") # Nil

\* (*DatabaseError).IsRetryable
IsRetryable(e) == e.Code = 1001 \/ e.Code = 1002

---------------------------------------------------------------------------
(* Standard output *)

\* fmt.Printf(s), s without a line end: s is added to the open line
Printf(o, s) == [o EXCEPT ![Len(o)] = @ \o s]

\* fmt.Println(s): s is added to the open line, which is then closed
Println(o, s) == Printf(o, s) \o <<"">>

RECURSIVE PrintAll(_, _)
\* fmt.Println of each line of ls in turn
PrintAll(o, ls) == IF Len(ls) = 0 THEN o ELSE PrintAll(Println(o, ls[1]), Tail(ls))

\* fmt's %t
FmtT(b) == IF b THEN "true" ELSE "false"

\* fmt's %f of a float64 holding a whole number
FmtF(n) == ToString(n) \o ".000000"

---------------------------------------------------------------------------
(* Users and their validation *)

NewUser(name, age, email) == [ID |-> "", Name |-> name, Age |-> age, Email |-> email]

Alice == NewUser(<<"A", "l", "i", "c", "e">>, 15,
                 <<"a", "l", "i", "c", "e", "@", "e", "x", "a", "m", "p", "l", "e",
                   ".", "c", "o", "m">>)

\* divideNumbers(a, b), for operands whose quotient is whole
divideNumbers(a, b, addr) ==
    IF b = 0 THEN [val |-> 0, err |-> New("division by zero", addr)]
    ELSE [val |-> a \div b, err |-> Nil]

\* processUser(user): the error it returns and standard output after it
processUser(user, o, a) ==
    IF user.Name = <<>> THEN [err |-> New("name is required", a), out |-> o]
    ELSE IF user.Age < 18 THEN [err |-> New("user must be at least 18", a), out |-> o]
    ELSE IF user.Email = <<>> THEN [err |-> New("email is required", a), out |-> o]
    ELSE IF ~Contains(user.Email, "@")
        THEN [err |-> New("invalid email format", a), out |-> o]
    ELSE [err |-> Nil, out |-> Println(o, "User is valid!")]

validateName(name, a) ==
    IF Len(name) < 2
        THEN New("name too short: " \o Str(name) \o " (minimum 2 characters)", a)
    ELSE Nil

validateAge(age, a) ==
    IF age < 18 THEN New("age too young: " \o ToString(age) \o " (minimum 18)", a)
    ELSE Nil

validateEmail(email, a) ==
    IF ~Contains(email, "@") THEN New("invalid email format: " \o Str(email), a)
    ELSE Nil

\* processUserWithContext(user); the inner error is made at a, the wrapper at a + 1
processUserWithContext(user, a) ==
    IF validateName(user.Name, a) # Nil
        THEN Errorf_w("name validation failed: ", validateName(user.Name, a), a + 1)
    ELSE IF validateAge(user.Age, a) # Nil
        THEN Errorf_w("age validation failed: ", validateAge(user.Age, a), a + 1)
    ELSE Nil

\* variant: only the first error found is kept
NonNil_first(s) ==
    IF \E i \in 1..Len(s) : s[i] # Nil
        THEN <<s[CHOOSE i \in 1..Len(s) : s[i] # Nil /\ \A j \in 1..(i - 1) : s[j] = Nil]>>
    ELSE <<>>

\* the elements of s that are not Nil, in order
RECURSIVE NonNil(_)
NonNil(s) ==
    IF Len(s) = 0 THEN <<>>
    ELSE IF s[1] = Nil THEN NonNil(Tail(s))
    ELSE <<s[1]>> \o NonNil(Tail(s))

\* validateUserComprehensive(user); the errors are made at a, a + 1, a + 2 and
\* the *AggregatedError at a + 3
validateUserComprehensive(user, a) ==
    LET errors == NonNil(<<validateName(user.Name, a),
                           validateAge(user.Age, a + 1),
                           validateEmail(user.Email, a + 2)>>)
    IN  IF Len(errors) > 0 THEN NewAggregatedError(errors, a + 3) ELSE Nil

\* (*AggregatedError).ErrorCount
ErrorCount(ae) == Len(ae.Errors)

\* (*AggregatedError).HasValidationErrors
HasValidationErrors(ae) == \E i \in 1..Len(ae.Errors) : IsValidationError(ae.Errors[i])

\* (*AggregatedError).HasDatabaseErrors
HasDatabaseErrors(ae) == \E i \in 1..Len(ae.Errors) : IsDatabaseError(ae.Errors[i])

\* the lines "  i. err" the sections print for an *AggregatedError
AggregatedLines(ae) ==
    <<"Found " \o ToString(ErrorCount(ae)) \o " validation errors:">>
    \o [i \in 1..Len(ae.Errors) |-> "  " \o ToString(i) \o ". " \o FmtV(ae.Errors[i])]

---------------------------------------------------------------------------
(* Chapter 10, sections 5 and 6: the functions *)

\* findUser(id): the user and the error it returns
findUser(id, a) ==
    IF id = "" THEN [user |-> Nil, err |-> New("invalid input", a)]
    ELSE IF id = "nonexistent" THEN [user |-> Nil, err |-> New("not found", a)]
    ELSE IF id = "admin" THEN [user |-> Nil, err |-> New("permission denied", a)]
    ELSE [user |-> [t |-> "User", addr |-> a, ID |-> id, Name |-> "User " \o id,
                    Age |-> 0, Email |-> <<>>],
          err |-> Nil]

validateUserAge(age, a) ==
    IF age < 18 THEN NewValidationError("age", "must be at least 18", age, a)
    ELSE Nil

connectToDatabase(a) == NewDatabaseError("CONNECT", "N/A", "connection refused", 1001, a)

\* processUserWithErrorTypes(user): the error it returns and what it logs
processUserWithErrorTypes(user, a) ==
    IF validateUserAge(user.Age, a) # Nil
        THEN [err |-> validateUserAge(user.Age, a), log |-> <<>>]
    ELSE IF connectToDatabase(a) # Nil
        THEN [err |-> New("service temporarily unavailable", a + 1),
              log |-> <<"Database connection failed: " \o FmtV(connectToDatabase(a))>>]
    ELSE [err |-> Nil, log |-> <<>>]

\* handleUserSubmission(user): standard output after it and what it logs
handleUserSubmission(user, o, a) ==
    LET r == processUser(user, o, a)
    IN  IF r.err # Nil
            THEN [out |-> IF IsValidationError(r.err)
                            THEN Println(r.out, "Please fix the validation issues and try again")
                            ELSE Println(r.out,
                                    "An unexpected error occurred. Please try again later."),
                  log |-> <<"User submission failed: " \o FmtV(r.err)>>]
        ELSE [out |-> Println(r.out, "User submitted successfully!"), log |-> <<>>]

\* variant: the error text depends on the clock reading
simulateUnreliableOperation_stamped(nano, a) ==
    IF nano < 3 THEN New("operation timed out", a)
    ELSE IF nano < 7 THEN New("operation failed", a)
    ELSE Nil

\* simulateUnreliableOperation(), nano being time.Now().UnixNano() % 10
simulateUnreliableOperation(nano, a) ==
    IF nano < 7 THEN New("operation failed", a) ELSE Nil

isRetryableError(err) ==
    IF IsNetworkError(err) THEN TRUE
    ELSE IF IsDatabaseError(err) /\ err.t = "DatabaseError" THEN IsRetryable(err)
    ELSE FALSE

\* divideSafely(a, b)
divideSafely(a, b, addr) ==
    IF b = 0 THEN [val |-> 0, err |-> New("division by zero", addr)]
    ELSE [val |-> a \div b, err |-> Nil]

\* safeDivide(a, b): the panic is recovered by the deferred function, which sets
\* the named result err; result keeps its zero value
safeDivide(a, b, addr) ==
    IF b = 0 THEN [val |-> 0, err |-> New("panic recovered: " \o "division by zero", addr)]
    ELSE [val |-> a \div b, err |-> Nil]

---------------------------------------------------------------------------
(* Errors an operation handed to retryOperation or smartRetry may return *)

LeafErrors ==
    {New("operation failed", 101),
     NewValidationError("age", "must be at least 18", 15, 102),
     NewNetworkError("https://api.example.com", 30, "connection refused", 103)}
    \cup {NewDatabaseError("SELECT", "users", "connection timeout", c, c) :
            c \in {1001, 1002, 1003}}

RECURSIVE ErrorsOfDepth(_)
\* the leaf errors wrapped d times with fmt.Errorf("query failed: %w", err)
ErrorsOfDepth(d) ==
    IF d = 0 THEN LeafErrors
    ELSE {Errorf_w("query failed: ", e, 10 * e.addr) : e \in ErrorsOfDepth(d - 1)}

OpErrors == UNION {ErrorsOfDepth(d) : d \in 0..MaxWrapDepth}

\* what one call of the operation may return; a new error is made at a
OperationResults(operation, a) ==
    IF operation = "simulateUnreliableOperation"
        THEN {simulateUnreliableOperation(nano, a) : nano \in 0..9}
    ELSE OpErrors \cup {Nil}

\* draws after a call of operation that returned r
DrawsAfter(d, operation, r) ==
    IF operation = "simulateUnreliableOperation" THEN Append(d, r # Nil) ELSE d

---------------------------------------------------------------------------
(* Activation records *)

NoFrame == [fn |-> "none", pc |-> "none"]

Returned(fn) == frame.fn = fn /\ frame.pc = "returned"

\* ---- retryOperation(maxAttempts, operation)

CallRetryOperation(maxAttempts, operation) ==
    [fn |-> "retryOperation", pc |-> "loop", maxAttempts |-> maxAttempts,
     operation |-> operation, attempt |-> 1, results |-> <<>>, ret |-> FALSE]

\* variant: the last attempt is left out
RetryLoopCond_short(attempt, maxAttempts) == attempt < maxAttempts

\* the loop condition of retryOperation
RetryLoopCond(attempt, maxAttempts) == attempt <= maxAttempts

\* variant: the attempt counter is not advanced
RetryNextAttempt_stuck(attempt) == attempt

\* attempt++
RetryNextAttempt(attempt) == attempt + 1

\* the body of the loop for an operation that returned r
RetryBodyOut(o, f, r) ==
    LET o1 == Printf(o, "Attempt " \o ToString(f.attempt) \o ": ")
    IN  IF r # Nil
            THEN LET o2 == Println(o1, "Failed: " \o FmtV(r))
                 IN  IF f.attempt < f.maxAttempts THEN Println(o2, "  Retrying...") ELSE o2
        ELSE Println(o1, "Succeeded!")

RetryBodyFrame(f, r) ==
    IF r # Nil
        THEN [f EXCEPT !.attempt = RetryNextAttempt(@), !.results = Append(@, r)]
    ELSE [f EXCEPT !.pc = "returned", !.ret = TRUE, !.results = Append(@, r)]

\* one evaluation of the loop condition of retryOperation and, if it holds, one
\* run of the loop body
RetryOperationStep ==
    /\ frame.fn = "retryOperation"
    /\ frame.pc = "loop"
    /\ IF RetryLoopCond(frame.attempt, frame.maxAttempts)
        THEN \E r \in OperationResults(frame.operation, nextAddr) :
                /\ stdout' = RetryBodyOut(stdout, frame, r)
                /\ frame' = RetryBodyFrame(frame, r)
                /\ draws' = DrawsAfter(draws, frame.operation, r)
                /\ nextAddr' = nextAddr + 1
        ELSE /\ frame' = [frame EXCEPT !.pc = "returned", !.ret = FALSE]
             /\ UNCHANGED <<stdout, draws, nextAddr>>
    /\ UNCHANGED <<pc, locals, stderr, run, prevOut, prevDraws, heap, configInstance>>

\* ---- smartRetry(operation)

smartRetryMaxAttempts == 3

CallSmartRetry(operation) ==
    [fn |-> "smartRetry", pc |-> "loop", maxAttempts |-> smartRetryMaxAttempts,
     operation |-> operation, attempt |-> 1, results |-> <<>>, slept |-> <<>>,
     ret |-> Nil]

\* variant: the last attempt is left out
SmartLoopCond_short(attempt, maxAttempts) == attempt < maxAttempts

\* the loop condition of smartRetry
SmartLoopCond(attempt, maxAttempts) == attempt <= maxAttempts

\* variant: every error is retried
SmartRetries_any(err, attempt, maxAttempts) == attempt < maxAttempts

\* whether smartRetry goes round again after err
SmartRetries(err, attempt, maxAttempts) ==
    isRetryableError(err) /\ attempt < maxAttempts

\* the body of the loop for an operation that returned r; the sleep is recorded
\* in seconds
SmartBodyFrame(f, r) ==
    IF r = Nil
        THEN [f EXCEPT !.pc = "returned", !.ret = Nil, !.results = Append(@, r)]
    ELSE IF SmartRetries(r, f.attempt, f.maxAttempts)
        THEN [f EXCEPT !.attempt = @ + 1, !.results = Append(@, r),
                       !.slept = Append(@, f.attempt)]
    ELSE [f EXCEPT !.pc = "returned", !.ret = r, !.results = Append(@, r)]

SmartBodyOut(o, f, r) ==
    IF r # Nil /\ SmartRetries(r, f.attempt, f.maxAttempts)
        THEN Println(o, "Retryable error, attempting " \o ToString(f.attempt + 1)
                        \o " of " \o ToString(f.maxAttempts) \o "...")
    ELSE o

\* one evaluation of the loop condition of smartRetry and, if it holds, one run
\* of the loop body; otherwise the return after the loop
SmartRetryStep ==
    /\ frame.fn = "smartRetry"
    /\ frame.pc = "loop"
    /\ IF SmartLoopCond(frame.attempt, frame.maxAttempts)
        THEN \E r \in OperationResults(frame.operation, nextAddr) :
                /\ stdout' = SmartBodyOut(stdout, frame, r)
                /\ frame' = SmartBodyFrame(frame, r)
                /\ draws' = DrawsAfter(draws, frame.operation, r)
                /\ nextAddr' = nextAddr + 1
        ELSE /\ frame' = [frame EXCEPT !.pc = "returned",
                                       !.ret = New("max retry attempts reached", nextAddr)]
             /\ nextAddr' = nextAddr + 1
             /\ UNCHANGED <<stdout, draws>>
    /\ UNCHANGED <<pc, locals, stderr, run, prevOut, prevDraws, heap, configInstance>>

\* ---- getDataWithFallback()

\* variant: the secondary source is tried first
FallbackOrder_swapped == <<"secondary", "primary", "cache">>

\* the sources in the order getDataWithFallback tries them
FallbackOrder == <<"primary", "secondary", "cache">>

\* getDataFromPrimary, getDataFromSecondary, getDataFromCache as written:
\* whether the source answers
SourcesAsWritten == [primary |-> FALSE, secondary |-> FALSE, cache |-> TRUE]

\* the data a source returns when it answers: "cached data" for the cache; as
\* written the other two never answer, and a source made to answer returns
\* data named after it
SourceData(src) ==
    CASE src = "primary" -> "primary data"
      [] src = "secondary" -> "secondary data"
      [] src = "cache" -> "cached data"

CallGetDataWithFallback(sources) ==
    [fn |-> "getDataWithFallback", pc |-> "try", sources |-> sources, next |-> 1,
     called |-> <<>>, data |-> "", err |-> Nil]

\* one `if data, err := getDataFromX(); err == nil` of getDataWithFallback, or the
\* return after the last one
FallbackStep ==
    /\ frame.fn = "getDataWithFallback"
    /\ frame.pc = "try"
    /\ IF frame.next <= Len(FallbackOrder)
        THEN LET src == FallbackOrder[frame.next]
             IN  IF frame.sources[src]
                    THEN frame' = [frame EXCEPT !.pc = "returned",
                                                !.called = Append(@, src),
                                                !.data = SourceData(src), !.err = Nil]
                    ELSE frame' = [frame EXCEPT !.next = @ + 1,
                                                !.called = Append(@, src)]
        ELSE frame' = [frame EXCEPT !.pc = "returned", !.data = "",
                                    !.err = New("all data sources failed", nextAddr)]
    /\ nextAddr' = nextAddr + 1
    /\ UNCHANGED <<pc, locals, stdout, stderr, draws, run, prevOut, prevDraws, heap, configInstance>>

---------------------------------------------------------------------------
(* Chapter 10: main *)

InitLocals ==
    [originalErr |-> Nil, dbErr |-> Nil, serviceErr |-> Nil, apiErr |-> Nil,
     currentErr |-> Nil, level |-> 0, visited |-> <<>>,
     ErrNotFound |-> Nil, ErrInvalidInput |-> Nil, ErrPermissionDenied |-> Nil,
     err |-> Nil]

\* the state in which main starts
Init ==
    /\ pc = "start"
    /\ frame = NoFrame
    /\ locals = InitLocals
    /\ stdout = <<"">>
    /\ stderr = <<>>
    /\ draws = <<>>
    /\ nextAddr = 1
    /\ run = 1
    /\ prevOut = <<>>
    /\ prevDraws = <<>>
    /\ heap = EmptyHeap
    /\ configInstance = NilPtr

\* a step of main that only prints ls, makes n allocations and goes to next
MainPrints(at, ls, n, next) ==
    /\ pc = at
    /\ frame = NoFrame
    /\ stdout' = PrintAll(stdout, ls)
    /\ nextAddr' = nextAddr + n
    /\ pc' = next
    /\ UNCHANGED <<frame, locals, stderr, draws, run, prevOut, prevDraws, heap, configInstance>>

MainBanner ==
    MainPrints("start",
               <<"Go Error Handling - Chapter 10",
                 "==================================">>,
               0, "s1_1")

\* ---- section1_ErrorPhilosophy

Section1_Values ==
    MainPrints("s1_1",
               <<"", "Section 1: Go's Error Philosophy",
                 "------------------------------------",
                 "", "1. Errors are Just Values:",
                 "Error: " \o FmtV(Nil),
                 "Error: " \o FmtV(New("something went wrong", nextAddr)),
                 IF New("something went wrong", nextAddr) # Nil
                    THEN "There is an error!" ELSE "No error!">>,
               1, "s1_2")

Section1_Interface ==
    MainPrints("s1_2",
               <<"", "2. Understanding the error Interface:",
                 "My error: " \o FmtV([t |-> "SimpleError", Message |-> "my custom error"]),
                 "String error: " \o FmtV([t |-> "StringError", s |-> "something went wrong"]),
                 "Code error: " \o FmtV([t |-> "CodeError", c |-> 404])>>,
               0, "s1_3")

Section1_Collections ==
    LET errorList == [i \in 1..3 |-> New("error " \o ToString(i), nextAddr + i - 1)]
        errorMap == [validation |-> New("validation failed", nextAddr + 3),
                     database |-> New("database connection failed", nextAddr + 4),
                     network |-> New("network timeout", nextAddr + 5)]
    IN  MainPrints("s1_3",
                   <<"", "3. Errors in Collections:">>
                   \o [i \in 1..3 |-> "Error " \o ToString(i) \o ": " \o FmtV(errorList[i])]
                   \o <<"Validation error: " \o FmtV(errorMap.validation)>>,
                   6, "s2_1")

\* ---- section2_BasicErrorHandling

Section2_Creating ==
    MainPrints("s2_1",
               <<"", "Section 2: Basic Error Handling",
                 "-----------------------------------",
                 "", "1. Creating Errors:",
                 "Method 1: " \o FmtV(New("file not found", nextAddr)),
                 "Method 2: " \o FmtV(New("failed to read file " \o "config.txt", nextAddr + 1)),
                 "Method 3: " \o FmtV(NewValidationError("age", "must be 18+", 15, nextAddr + 2))>>,
               3, "s2_2")

\* the line printed for the result of a division
DivisionLine(r, fmt) ==
    IF r.err # Nil THEN "Division failed: " \o FmtV(r.err)
    ELSE "Result: " \o (IF fmt = "f" THEN FmtF(r.val) ELSE ToString(r.val))

Section2_Checking ==
    MainPrints("s2_2",
               <<"", "2. Always Check Errors:",
                 DivisionLine(divideNumbers(10, 2, nextAddr), "f"),
                 DivisionLine(divideNumbers(10, 0, nextAddr), "f")>>,
               1, "s3_1")

\* ---- section3_ErrorHandlingPatterns

Section3_EarlyReturns ==
    /\ pc = "s3_1"
    /\ frame = NoFrame
    /\ LET o == PrintAll(stdout, <<"", "Section 3: Error Handling Patterns",
                                   "--------------------------------------",
                                   "", "1. Early Returns (Happy Path Left-Aligned):">>)
           r == processUser(Alice, o, nextAddr)
       IN  stdout' = IF r.err # Nil
                        THEN Println(r.out, "User processing failed: " \o FmtV(r.err))
                        ELSE r.out
    /\ nextAddr' = nextAddr + 1
    /\ pc' = "s3_2"
    /\ UNCHANGED <<frame, locals, stderr, draws, run, prevOut, prevDraws, heap, configInstance>>

Section3_Propagation ==
    LET err == processUserWithContext(Alice, nextAddr)
    IN  MainPrints("s3_2",
                   <<"", "2. Error Propagation:">>
                   \o (IF err # Nil THEN <<"Processing failed: " \o FmtV(err)>> ELSE <<>>),
                   2, "s3_3")

Section3_Multiple ==
    LET err == validateUserComprehensive(Alice, nextAddr)
    IN  MainPrints("s3_3",
                   <<"", "3. Multiple Error Handling:">>
                   \o (IF err # Nil /\ err.t = "AggregatedError"
                        THEN AggregatedLines(err) ELSE <<>>),
                   4, "s4_1")

\* ---- section4_CustomErrorTypes

Section4_Rich ==
    LET validationErr == NewValidationError("age", "must be at least 18", 15, nextAddr)
    IN  MainPrints("s4_1",
                   <<"", "Section 4: Custom Error Types",
                     "---------------------------------",
                     "", "1. Custom Error Types with Rich Information:",
                     "Error: " \o FmtV(validationErr),
                     "Field with problem: " \o validationErr.Field,
                     "Problematic value: " \o ToString(validationErr.Value),
                     "Is this a validation error? " \o FmtT(TRUE)>>,
                   1, "s4_2")

\* dbErr of section 4, made in its second part and used in its third
Section4_dbErr(a) == NewDatabaseError("SELECT", "users", "connection timeout", 1001, a)

Section4_DbAndNetwork ==
    LET dbErr == Section4_dbErr(nextAddr)
        networkErr == NewNetworkError("https://api.example.com", 30,
                                      "connection refused", nextAddr + 1)
    IN  MainPrints("s4_2",
                   <<"", "2. Database and Network Errors:",
                     "Database error: " \o FmtV(dbErr),
                     "Is retryable? " \o FmtT(IsRetryable(dbErr)),
                     "Network error: " \o FmtV(networkErr)>>,
                   2, "s4_3")

Section4_Checking ==
    LET dbErr == Section4_dbErr(nextAddr - 2)
        valErr == NewValidationError("age", "too young", 15, nextAddr)
        validationErr2 == As(dbErr, "ValidationError")
    IN  MainPrints("s4_3",
                   <<"", "3. Checking Error Types:",
                     "Type assertion example: dbErr is a DatabaseError, not a ValidationError",
                     "Validation error on field: " \o valErr.Field,
                     IF validationErr2 # Nil
                        THEN "Validation error on field: " \o validationErr2.Field
                        ELSE "Not a validation error",
                     "Is validation error? " \o FmtT(IsValidationError(dbErr)),
                     "Is database error? " \o FmtT(IsDatabaseError(dbErr)),
                     "Is network error? " \o FmtT(IsNetworkError(dbErr))>>,
                   1, "s5_1")

\* ---- section5_AdvancedErrorPatterns

\* variant: serviceErr wraps originalErr instead of dbErr
BuildChain_skip(a) ==
    LET originalErr == New("connection timeout", a)
        dbErr == Errorf_w("database query failed: ", originalErr, a + 1)
        serviceErr == Errorf_w("failed to get user data: ", originalErr, a + 2)
        apiErr == Errorf_w("user profile update failed: ", serviceErr, a + 3)
    IN  [originalErr |-> originalErr, dbErr |-> dbErr,
         serviceErr |-> serviceErr, apiErr |-> apiErr]

\* variant: apiErr is formatted with %v, which keeps the text and drops the chain
BuildChain_flat(a) ==
    LET originalErr == New("connection timeout", a)
        dbErr == Errorf_w("database query failed: ", originalErr, a + 1)
        serviceErr == Errorf_w("failed to get user data: ", dbErr, a + 2)
        apiErr == New("user profile update failed: " \o FmtV(serviceErr), a + 3)
    IN  [originalErr |-> originalErr, dbErr |-> dbErr,
         serviceErr |-> serviceErr, apiErr |-> apiErr]

\* the error chain of section 5, built at addresses a .. a + 3
BuildChain(a) ==
    LET originalErr == New("connection timeout", a)
        dbErr == Errorf_w("database query failed: ", originalErr, a + 1)
        serviceErr == Errorf_w("failed to get user data: ", dbErr, a + 2)
        apiErr == Errorf_w("user profile update failed: ", serviceErr, a + 3)
    IN  [originalErr |-> originalErr, dbErr |-> dbErr,
         serviceErr |-> serviceErr, apiErr |-> apiErr]

Section5_Wrapping ==
    /\ pc = "s5_1"
    /\ frame = NoFrame
    /\ LET c == BuildChain(nextAddr)
       IN  /\ locals' = [locals EXCEPT !.originalErr = c.originalErr, !.dbErr = c.dbErr,
                                       !.serviceErr = c.serviceErr, !.apiErr = c.apiErr]
           /\ stdout' = PrintAll(stdout,
                            <<"", "Section 5: Advanced Error Patterns",
                              "--------------------------------------",
                              "", "1. Error Wrapping:",
                              "Original error: " \o FmtV(c.originalErr),
                              "Database error: " \o FmtV(c.dbErr),
                              "Service error: " \o FmtV(c.serviceErr),
                              "API error: " \o FmtV(c.apiErr)>>)
    /\ nextAddr' = nextAddr + 4
    /\ pc' = "s5_2"
    /\ UNCHANGED <<frame, stderr, draws, run, prevOut, prevDraws, heap, configInstance>>

Section5_UnwrapStart ==
    /\ pc = "s5_2"
    /\ frame = NoFrame
    /\ locals' = [locals EXCEPT !.currentErr = locals.apiErr, !.level = 1]
    /\ stdout' = PrintAll(stdout, <<"", "2. Unwrapping Errors:",
                                    "Error chain (from most recent to original):">>)
    /\ pc' = "s5_2_loop"
    /\ UNCHANGED <<frame, stderr, draws, nextAddr, run, prevOut, prevDraws, heap, configInstance>>

\* one evaluation of `currentErr != nil` and, if it holds, one run of the loop body
Section5_UnwrapStep ==
    /\ pc = "s5_2_loop"
    /\ frame = NoFrame
    /\ IF locals.currentErr # Nil
        THEN /\ stdout' = Println(stdout, "Level " \o ToString(locals.level) \o ": "
                                          \o FmtV(locals.currentErr))
             /\ locals' = [locals EXCEPT !.currentErr = Unwrap(locals.currentErr),
                                         !.level = @ + 1,
                                         !.visited = Append(@, locals.currentErr)]
             /\ pc' = pc
        ELSE /\ pc' = "s5_3"
             /\ UNCHANGED <<stdout, locals>>
    /\ UNCHANGED <<frame, stderr, draws, nextAddr, run, prevOut, prevDraws, heap, configInstance>>

Section5_CheckingWrapped ==
    LET dbError == As(locals.apiErr, "DatabaseError")
    IN  MainPrints("s5_3",
                   <<"", "3. Checking Wrapped Errors:">>
                   \o (IF Is(locals.apiErr, locals.originalErr)
                        THEN <<"Yes! The API error contains the original connection timeout error">>
                        ELSE <<>>)
                   \o <<IF dbError # Nil
                            THEN "Found database error in chain: " \o FmtV(dbError)
                            ELSE "No database error found in chain">>,
                   0, "s5_4")

\* the switch over the sentinel errors: the line it prints
SentinelSwitch(err, ErrNotFound, ErrInvalidInput, ErrPermissionDenied) ==
    IF Is(err, ErrNotFound) THEN "User not found"
    ELSE IF Is(err, ErrInvalidInput) THEN "Invalid user ID"
    ELSE IF Is(err, ErrPermissionDenied) THEN "Access denied"
    ELSE "Unknown error: " \o FmtV(err)

\* the sentinel errors section 5 declares, made at a .. a + 2
Sentinels(a) ==
    [ErrNotFound |-> New("not found", a),
     ErrInvalidInput |-> New("invalid input", a + 1),
     ErrPermissionDenied |-> New("permission denied", a + 2)]

\* the sentinel part of section 5 for the user id: locals and standard output after
\* it; the sentinels are made at a .. a + 2, findUser allocates at a + 3
SentinelPart(l, o, id, a) ==
    LET sn == Sentinels(a)
        err == findUser(id, a + 3).err
    IN  [locals |-> [l EXCEPT !.ErrNotFound = sn.ErrNotFound,
                              !.ErrInvalidInput = sn.ErrInvalidInput,
                              !.ErrPermissionDenied = sn.ErrPermissionDenied,
                              !.err = err],
         out |-> IF err # Nil
                    THEN Println(o, SentinelSwitch(err, sn.ErrNotFound, sn.ErrInvalidInput,
                                                   sn.ErrPermissionDenied))
                    ELSE o]

Section5_Sentinel ==
    /\ pc = "s5_4"
    /\ frame = NoFrame
    /\ LET r == SentinelPart(locals, PrintAll(stdout, <<"", "4. Sentinel Errors:">>),
                             "nonexistent", nextAddr)
       IN  /\ locals' = r.locals
           /\ stdout' = r.out
    /\ nextAddr' = nextAddr + 4
    /\ pc' = "s5_5"
    /\ UNCHANGED <<frame, stderr, draws, run, prevOut, prevDraws, heap, configInstance>>

user2 == NewUser(<<"A">>, 15,
                 <<"i", "n", "v", "a", "l", "i", "d", "-", "e", "m", "a", "i", "l">>)

\* the aggregation part of section 5 for a user: the lines it prints
AggregationLines(user, a) ==
    LET err == validateUserComprehensive(user, a)
    IN  IF err # Nil /\ err.t = "AggregatedError"
            THEN AggregatedLines(err)
                 \o (IF HasValidationErrors(err)
                        THEN <<"Please fix the validation issues above">> ELSE <<>>)
        ELSE <<>>

Section5_Aggregation ==
    MainPrints("s5_5",
               <<"", "5. Error Aggregation:">> \o AggregationLines(user2, nextAddr),
               4, "s6_1")

\* ---- section6_ErrorHandlingBestPractices

Section6_ExpectedVsUnexpected ==
    /\ pc = "s6_1"
    /\ frame = NoFrame
    /\ LET r == processUserWithErrorTypes(Alice, nextAddr)
       IN  /\ stdout' = PrintAll(stdout,
                            <<"", "Section 6: Error Handling Best Practices",
                              "---------------------------------------------",
                              "", "1. Expected vs Unexpected Errors:">>
                            \o (IF r.err # Nil
                                    THEN <<"Processing failed: " \o FmtV(r.err)>>
                                    ELSE <<>>))
           /\ stderr' = stderr \o r.log
    /\ nextAddr' = nextAddr + 2
    /\ pc' = "s6_2"
    /\ UNCHANGED <<frame, locals, draws, run, prevOut, prevDraws, heap, configInstance>>

Section6_Submission ==
    /\ pc = "s6_2"
    /\ frame = NoFrame
    /\ LET r == handleUserSubmission(Alice,
                    PrintAll(stdout, <<"", "2. Separating Logging from Error Handling:">>),
                    nextAddr)
       IN  /\ stdout' = r.out
           /\ stderr' = stderr \o r.log
    /\ nextAddr' = nextAddr + 1
    /\ pc' = "s6_3"
    /\ UNCHANGED <<frame, locals, draws, run, prevOut, prevDraws, heap, configInstance>>

Section6_CallRetry ==
    /\ pc = "s6_3"
    /\ frame = NoFrame
    /\ stdout' = PrintAll(stdout, <<"", "3. Retry Patterns:">>)
    /\ frame' = CallRetryOperation(3, "simulateUnreliableOperation")
    /\ pc' = "s6_3_retry"
    /\ UNCHANGED <<locals, stderr, draws, nextAddr, run, prevOut, prevDraws, heap, configInstance>>

\* retryOperation has returned: its result is printed and smartRetry is called
Section6_CallSmartRetry ==
    /\ pc = "s6_3_retry"
    /\ Returned("retryOperation")
    /\ stdout' = Println(stdout, IF frame.ret THEN "Operation succeeded after retries"
                                 ELSE "Operation failed after all retries")
    /\ frame' = CallSmartRetry("simulateUnreliableOperation")
    /\ pc' = "s6_3_smart"
    /\ UNCHANGED <<locals, stderr, draws, nextAddr, run, prevOut, prevDraws, heap, configInstance>>

\* smartRetry has returned: its result is printed
Section6_SmartRetryReturned ==
    /\ pc = "s6_3_smart"
    /\ Returned("smartRetry")
    /\ stdout' = Println(stdout, IF frame.ret # Nil
                                    THEN "Smart retry failed: " \o FmtV(frame.ret)
                                 ELSE "Smart retry succeeded!")
    /\ frame' = NoFrame
    /\ pc' = "s6_4"
    /\ UNCHANGED <<locals, stderr, draws, nextAddr, run, prevOut, prevDraws, heap, configInstance>>

Section6_CallFallback ==
    /\ pc = "s6_4"
    /\ frame = NoFrame
    /\ stdout' = PrintAll(stdout, <<"", "4. Fallback Patterns:">>)
    /\ frame' = CallGetDataWithFallback(SourcesAsWritten)
    /\ pc' = "s6_4_fallback"
    /\ UNCHANGED <<locals, stderr, draws, nextAddr, run, prevOut, prevDraws, heap, configInstance>>

Section6_FallbackReturned ==
    /\ pc = "s6_4_fallback"
    /\ Returned("getDataWithFallback")
    /\ stdout' = Println(stdout, IF frame.err # Nil
                                    THEN "All data sources failed: " \o FmtV(frame.err)
                                 ELSE "Data retrieved: " \o frame.data)
    /\ frame' = NoFrame
    /\ pc' = "s7_1"
    /\ UNCHANGED <<locals, stderr, draws, nextAddr, run, prevOut, prevDraws, heap, configInstance>>

\* ---- section7_PanicsVsErrors

Section7_Panics ==
    MainPrints("s7_1",
               <<"", "Section 7: Panics vs Errors",
                 "--------------------------------",
                 "", "1. Understanding Panics:",
                 "Panic example: divideByZero(10, 0) would crash the program">>,
               0, "s7_2")

Section7_Errors ==
    MainPrints("s7_2",
               <<"", "2. Panics vs Errors:",
                 DivisionLine(divideSafely(10, 0, nextAddr), "d")>>,
               1, "s7_3")

\* the line printed for the result of safeDivide
RecoverLine(r) ==
    IF r.err # Nil THEN "Error: " \o FmtV(r.err) ELSE "Result: " \o ToString(r.val)

Section7_Recover ==
    MainPrints("s7_3",
               <<"", "3. Using Recover (Advanced Topic):",
                 RecoverLine(safeDivide(10, 0, nextAddr))>>,
               1, "end")

MainEnd ==
    MainPrints("end", <<"", "Error handling chapter completed!">>, 0, "done")

\* the steps of the functions main calls
FunctionStep == RetryOperationStep \/ SmartRetryStep \/ FallbackStep

Next ==
    \/ MainBanner
    \/ Section1_Values \/ Section1_Interface \/ Section1_Collections
    \/ Section2_Creating \/ Section2_Checking
    \/ Section3_EarlyReturns \/ Section3_Propagation \/ Section3_Multiple
    \/ Section4_Rich \/ Section4_DbAndNetwork \/ Section4_Checking
    \/ Section5_Wrapping \/ Section5_UnwrapStart \/ Section5_UnwrapStep
    \/ Section5_CheckingWrapped \/ Section5_Sentinel \/ Section5_Aggregation
    \/ Section6_ExpectedVsUnexpected \/ Section6_Submission
    \/ Section6_CallRetry \/ Section6_CallSmartRetry \/ Section6_SmartRetryReturned
    \/ Section6_CallFallback \/ Section6_FallbackReturned
    \/ Section7_Panics \/ Section7_Errors \/ Section7_Recover
    \/ MainEnd
    \/ FunctionStep

\* one run of the chapter-10 program
Spec == Init /\ [][Next]_vars

\* main is the only thread and is never suspended
FairSpec == Spec /\ WF_vars(Next)

---------------------------------------------------------------------------
(* Two runs of the program, one after the other *)

\* the program is started again once its first run has finished; the first
\* run's output and draws are kept for comparison
Rerun ==
    /\ pc = "done"
    /\ run = 1
    /\ prevOut' = stdout
    /\ prevDraws' = draws
    /\ run' = 2
    /\ pc' = "start"
    /\ frame' = NoFrame
    /\ locals' = InitLocals
    /\ stdout' = <<"">>
    /\ stderr' = <<>>
    /\ draws' = <<>>
    /\ nextAddr' = 1
    /\ heap' = EmptyHeap
    /\ configInstance' = NilPtr

TwoRunNext == Next \/ Rerun

TwoRunSpec == Init /\ [][TwoRunNext]_vars

---------------------------------------------------------------------------
(* The functions of chapter 10 called on their own *)

UnitInit ==
    /\ pc = "unit"
    /\ frame = NoFrame
    /\ locals = InitLocals
    /\ stdout = <<"">>
    /\ stderr = <<>>
    /\ draws = <<>>
    /\ nextAddr = 1
    /\ run = 1
    /\ prevOut = <<>>
    /\ prevDraws = <<>>
    /\ heap = EmptyHeap
    /\ configInstance = NilPtr

Operations == {"simulateUnreliableOperation", "arbitraryOperation"}

UserIds == {"", "nonexistent", "admin", "alice"}

Users ==
    {NewUser(name, age, email) :
        name \in {<<>>, <<"A">>, <<"A", "l">>},
        age \in {15, 17, 18, 30},
        email \in {<<>>, <<"a">>, <<"@">>, <<"a", "@", "b">>}}

SourceBehaviours == [{"primary", "secondary", "cache"} -> BOOLEAN]

\* a call of a function that runs in steps
UnitCalls(f) ==
    /\ pc = "unit"
    /\ frame' = f
    /\ pc' = "unit_called"
    /\ UNCHANGED <<locals, stdout, stderr, draws, nextAddr, run, prevOut, prevDraws, heap, configInstance>>

UnitRetryOperation ==
    \E maxAttempts \in -1..MaxAttemptsArg, operation \in Operations :
        UnitCalls(CallRetryOperation(maxAttempts, operation))

UnitSmartRetry ==
    \E operation \in Operations : UnitCalls(CallSmartRetry(operation))

UnitGetDataWithFallback ==
    \E sources \in SourceBehaviours : UnitCalls(CallGetDataWithFallback(sources))

UnitIsRetryableError ==
    /\ pc = "unit"
    /\ \E err \in OpErrors :
        locals' = [fn |-> "isRetryableError", err |-> err, ret |-> isRetryableError(err)]
    /\ pc' = "unit_done"
    /\ UNCHANGED <<frame, stdout, stderr, draws, nextAddr, run, prevOut, prevDraws, heap, configInstance>>

\* findUser(id) followed by the switch over the sentinel errors of section 5
UnitFindUser ==
    /\ pc = "unit"
    /\ \E id \in UserIds :
        LET r == SentinelPart(InitLocals, stdout, id, nextAddr)
        IN  /\ locals' = [fn |-> "findUser", id |-> id, l |-> r.locals]
            /\ stdout' = r.out
    /\ nextAddr' = nextAddr + 4
    /\ pc' = "unit_done"
    /\ UNCHANGED <<frame, stderr, draws, run, prevOut, prevDraws, heap, configInstance>>

UnitHandleUserSubmission ==
    /\ pc = "unit"
    /\ \E user \in Users :
        LET r == handleUserSubmission(user, stdout, nextAddr)
        IN  /\ locals' = [fn |-> "handleUserSubmission", user |-> user,
                          err |-> processUser(user, stdout, nextAddr).err]
            /\ stdout' = r.out
            /\ stderr' = stderr \o r.log
    /\ nextAddr' = nextAddr + 1
    /\ pc' = "unit_done"
    /\ UNCHANGED <<frame, draws, run, prevOut, prevDraws, heap, configInstance>>

\* validateUserComprehensive(user) followed by the printing of section 5, part 5
UnitValidateUserComprehensive ==
    /\ pc = "unit"
    /\ \E user \in Users :
        /\ locals' = [fn |-> "validateUserComprehensive", user |-> user,
                      ret |-> validateUserComprehensive(user, nextAddr)]
        /\ stdout' = PrintAll(stdout, <<"", "5. Error Aggregation:">>
                                      \o AggregationLines(user, nextAddr))
    /\ nextAddr' = nextAddr + 4
    /\ pc' = "unit_done"
    /\ UNCHANGED <<frame, stderr, draws, run, prevOut, prevDraws, heap, configInstance>>

\* ---- Chapter 3: defer (src/unnamed/part_002)
\*
\* A function body is the sequence of its statements, fmt.Println(e) or
\* defer fmt.Println(e); a string literal is the sequence of its lines.

StringLit(lines) == [k |-> "string", lines |-> lines]

IntLit(n) == [k |-> "int", n |-> n]

\* the expression l * r
Times(l, r) == [k |-> "*", l |-> l, r |-> r]

\* the type the compiler gives an expression: * is defined on numbers only
TypeOf(e) ==
    IF e.k = "*"
        THEN IF e.l.k = "int" /\ e.r.k = "int" THEN "int" ELSE "invalid"
    ELSE e.k

\* the lines fmt.Println writes for a well-typed expression
Value(e) ==
    IF e.k = "string" THEN e.lines
    ELSE IF e.k = "int" THEN <<ToString(e.n)>>
    ELSE <<ToString(e.l.n * e.r.n)>>

PrintlnStmt(e) == [op |-> "Println", arg |-> e]

DeferStmt(e) == [op |-> "defer", arg |-> e]

section5_DeferStatements ==
    <<PrintlnStmt(StringLit(<<"", "SECTION 5: DEFER STATEMENTS">>)),
      PrintlnStmt(Times(StringLit(<<"-">>), IntLit(30))),
      PrintlnStmt(StringLit(<<"Basic Defer Statement:">>)),
      DeferStmt(StringLit(<<"This runs LAST (when function exits)">>)),
      DeferStmt(StringLit(<<"This runs SECOND to last">>)),
      DeferStmt(StringLit(<<"This runs THIRD to last">>)),
      PrintlnStmt(StringLit(<<"Function body executing...">>)),
      PrintlnStmt(StringLit(<<"About to exit function...">>)),
      PrintlnStmt(StringLit(<<"", "Practical Defer Examples:">>)),
      PrintlnStmt(StringLit(<<"Opening file 'data.txt'...">>)),
      DeferStmt(StringLit(<<"Closing file 'data.txt' (deferred cleanup)">>)),
      PrintlnStmt(StringLit(<<"Reading file content...">>)),
      PrintlnStmt(StringLit(<<"File operations complete!">>)),
      PrintlnStmt(StringLit(<<"", "Connecting to database...">>)),
      DeferStmt(StringLit(<<"Closing database connection (deferred)">>)),
      PrintlnStmt(StringLit(<<"Starting transaction...">>)),
      DeferStmt(StringLit(<<"Committing transaction (deferred)">>)),
      PrintlnStmt(StringLit(<<"Executing queries...">>)),
      PrintlnStmt(StringLit(<<"Database operations complete!">>))>>

\* func example() of the chapter's text
example ==
    <<PrintlnStmt(StringLit(<<"Starting function...">>)),
      DeferStmt(StringLit(<<"This runs LAST!">>)),
      DeferStmt(StringLit(<<"This runs SECOND to last!">>)),
      PrintlnStmt(StringLit(<<"Function body executing...">>)),
      PrintlnStmt(StringLit(<<"About to exit function...">>))>>

\* func deferOrder() of the chapter's text
deferOrder ==
    <<DeferStmt(StringLit(<<"First defer">>)),
      DeferStmt(StringLit(<<"Second defer">>)),
      DeferStmt(StringLit(<<"Third defer">>)),
      PrintlnStmt(StringLit(<<"Function body">>))>>

DeferFunctions == {"section5_DeferStatements", "example", "deferOrder"}

Body(fn) ==
    CASE fn = "section5_DeferStatements" -> section5_DeferStatements
      [] fn = "example" -> example
      [] fn = "deferOrder" -> deferOrder

\* the statements of fn the compiler rejects
TypeErrors(fn) == {i \in 1..Len(Body(fn)) : TypeOf(Body(fn)[i].arg) = "invalid"}

\* the deferred call to run next: the one registered last
NextDeferred(defers) == Len(defers)

\* the program with fn is built and, if the compiler accepts it, fn is called
UnitGoRun ==
    /\ pc = "unit"
    /\ \E fn \in DeferFunctions :
        /\ locals' = [fn |-> fn, built |-> TypeErrors(fn) = {}]
        /\ IF TypeErrors(fn) = {}
            THEN /\ frame' = [fn |-> fn, pc |-> "body", at |-> 1, defers |-> <<>>]
                 /\ pc' = "unit_called"
                 /\ UNCHANGED stderr
            ELSE /\ stderr' = stderr \o <<"invalid operation: operator * not defined on a string">>
                 /\ pc' = "unit_done"
                 /\ UNCHANGED frame
    /\ UNCHANGED <<stdout, draws, nextAddr, run, prevOut, prevDraws, heap, configInstance>>

\* one statement of the body or, once the body is over, one deferred call
DeferStep ==
    /\ frame.fn \in DeferFunctions
    /\ frame.pc = "body"
    /\ IF frame.at <= Len(Body(frame.fn))
        THEN LET stmt == Body(frame.fn)[frame.at]
             IN  IF stmt.op = "defer"
                    THEN /\ frame' = [frame EXCEPT !.at = @ + 1,
                                                   !.defers = Append(@, Value(stmt.arg))]
                         /\ UNCHANGED stdout
                    ELSE /\ frame' = [frame EXCEPT !.at = @ + 1]
                         /\ stdout' = PrintAll(stdout, Value(stmt.arg))
        ELSE IF Len(frame.defers) > 0
            THEN LET d == NextDeferred(frame.defers)
                 IN  /\ stdout' = PrintAll(stdout, frame.defers[d])
                     /\ frame' = [frame EXCEPT !.defers =
                                     SubSeq(@, 1, d - 1) \o SubSeq(@, d + 1, Len(@))]
            ELSE /\ frame' = [frame EXCEPT !.pc = "returned"]
                 /\ UNCHANGED stdout
    /\ UNCHANGED <<pc, locals, stderr, draws, nextAddr, run, prevOut, prevDraws,
                   heap, configInstance>>

UnitNext ==
    \/ UnitRetryOperation \/ UnitSmartRetry \/ UnitGetDataWithFallback
    \/ UnitIsRetryableError \/ UnitFindUser \/ UnitHandleUserSubmission
    \/ UnitValidateUserComprehensive
    \/ FunctionStep
    \/ UnitGoRun \/ DeferStep

UnitSpec == UnitInit /\ [][UnitNext]_vars

---------------------------------------------------------------------------
(* Properties *)

\* the last closed line of standard output
LastLine == stdout[Len(stdout) - 1]

\* ---- C1

\* C1 as stated: any two runs of main print exactly the same sequence of lines.
\* Checked under TwoRunSpec: when the second run has finished, its output is
\* that of the first run.
C1_SameOutputInEveryRun ==
    (run = 2 /\ pc = "done") => stdout = prevOut

\* C1, amended: two runs of main in which simulateUnreliableOperation fails on
\* the same calls print exactly the same sequence of lines; the outcomes of
\* simulateUnreliableOperation are the only thing the output depends on.
C1_SameOutputForSameDraws ==
    (run = 2 /\ pc = "done" /\ draws = prevDraws) => stdout = prevOut

\* both runs failed twice in retryOperation, then succeeded, and failed in smartRetry
C1_Witness ==
    /\ run = 2
    /\ pc = "done"
    /\ draws = <<TRUE, TRUE, FALSE, TRUE>>
    /\ prevDraws = draws
    /\ stdout = prevOut

\* ---- C2

\* the loops of the program stay within their bounds: no more than three calls
\* of the operation in retryOperation(3, ...) or smartRetry, no more than four
\* errors visited by the errors.Unwrap loop
C2_LoopsBounded ==
    /\ frame.fn \in {"retryOperation", "smartRetry"} => Len(frame.results) <= 3
    /\ pc \notin {"unit", "unit_called", "unit_done"} =>
            (locals.level <= 5 /\ Len(locals.visited) <= 4)

\* C2: the chapter-10 program always runs to completion: whatever the
\* outcomes of the unreliable operation, the loops of retryOperation, smartRetry
\* and of the errors.Unwrap walk stay bounded and main reaches its final print.
\* Checked under FairSpec.
C2_RunsToCompletion ==
    /\ []C2_LoopsBounded
    /\ <>(pc = "done" /\ LastLine = "Error handling chapter completed!")

\* every call of the operation failed and the program still finished
C2_Witness ==
    /\ pc = "done"
    /\ draws = <<TRUE, TRUE, TRUE, TRUE>>
    /\ LastLine = "Error handling chapter completed!"

\* ---- C3

\* C3: retryOperation(maxAttempts, operation) returns true if and only if one
\* of the first maxAttempts calls of operation returns nil; it stops at the
\* first success, calls operation exactly maxAttempts times when every call
\* fails, and makes no call and returns false when maxAttempts <= 0.
C3_RetryOperation ==
    frame.fn = "retryOperation" =>
        LET n == Len(frame.results)
            m == frame.maxAttempts
        IN  /\ n <= (IF m > 0 THEN m ELSE 0)
            \* a success is the last call made
            /\ \A i \in 1..n : frame.results[i] = Nil => (i = n /\ frame.pc = "returned")
            /\ frame.pc = "returned" =>
                /\ frame.ret <=> (\E i \in 1..n : frame.results[i] = Nil)
                /\ ~frame.ret => n = (IF m > 0 THEN m ELSE 0)
                /\ m <= 0 => (n = 0 /\ ~frame.ret)

\* retryOperation(3, operation) succeeded at the third call
C3_Witness ==
    /\ Returned("retryOperation")
    /\ frame.maxAttempts = 3
    /\ Len(frame.results) = 3
    /\ frame.results[3] = Nil
    /\ frame.ret

\* ---- C4

\* C4: when operation returns an error for which isRetryableError is false,
\* smartRetry returns that same error immediately: the call that failed is the
\* last one and no sleep follows it.
C4_NonRetryableReturnedAtOnce ==
    frame.fn = "smartRetry" =>
        \A i \in 1..Len(frame.results) :
            (frame.results[i] # Nil /\ ~isRetryableError(frame.results[i])) =>
                /\ i = Len(frame.results)
                /\ frame.pc = "returned"
                /\ frame.ret = frame.results[i]
                /\ Len(frame.slept) = i - 1

\* a retryable failure, then a failure that is not retryable
C4_Witness ==
    /\ Returned("smartRetry")
    /\ Len(frame.results) = 2
    /\ frame.results[1].t = "NetworkError"
    /\ frame.results[2].t = "ValidationError"
    /\ frame.ret = frame.results[2]
    /\ frame.slept = <<1>>

\* ---- C5

\* C5: when operation keeps failing with retryable errors, smartRetry calls it
\* exactly 3 times and returns the error of the third call; when an attempt
\* succeeds it returns nil and makes no further call; operation is never called
\* more than 3 times.
C5_SmartRetryAttempts ==
    frame.fn = "smartRetry" =>
        LET n == Len(frame.results)
        IN  /\ n <= 3
            /\ \A i \in 1..n : frame.results[i] = Nil =>
                    (i = n /\ frame.pc = "returned" /\ frame.ret = Nil)
            /\ (frame.pc = "returned"
                    /\ \A i \in 1..n : frame.results[i] # Nil
                                        /\ isRetryableError(frame.results[i])) =>
                    (n = 3 /\ frame.ret = frame.results[3] /\ frame.slept = <<1, 2>>)

\* three retryable failures
C5_Witness ==
    /\ Returned("smartRetry")
    /\ Len(frame.results) = 3
    /\ \A i \in 1..3 : frame.results[i] # Nil /\ isRetryableError(frame.results[i])
    /\ frame.ret = frame.results[3]

\* ---- C6

\* C6 as stated: isRetryableError(err) is true exactly when the chain of err, as
\* errors.As sees it, holds a NetworkError, or holds a DatabaseError with code
\* 1001 or 1002, also when that DatabaseError has been wrapped with fmt.Errorf.
C6_RetryableIffInChain ==
    (pc = "unit_done" /\ locals.fn = "isRetryableError") =>
        (locals.ret <=>
            \/ As(locals.err, "NetworkError") # Nil
            \/ /\ As(locals.err, "DatabaseError") # Nil
               /\ As(locals.err, "DatabaseError").Code \in {1001, 1002})

\* ---- C7

\* C7: getDataWithFallback tries the sources strictly in the order primary,
\* secondary, cache; it returns the data of the first source that succeeds
\* without calling any later source, and returns the error "all data sources
\* failed" if and only if all three fail. With the sources as written it
\* returns ("cached data", nil).
C7_Fallback ==
    frame.fn = "getDataWithFallback" =>
        LET order == <<"primary", "secondary", "cache">>
            n == Len(frame.called)
            ok == {i \in 1..3 : frame.sources[order[i]]}
        IN  /\ n <= 3
            /\ \A i \in 1..n : frame.called[i] = order[i]
            \* no source is called after one that answered
            /\ \A i \in 1..n : i \in ok => i = n
            /\ frame.pc = "returned" =>
                /\ (ok = {}) <=> (frame.err # Nil)
                /\ ok = {} => /\ n = 3
                              /\ frame.data = ""
                              /\ ErrorText(frame.err) = "all data sources failed"
                /\ ok # {} => /\ n \in ok
                              /\ \A i \in ok : n <= i
                              /\ frame.data = SourceData(order[n])
                /\ frame.sources = SourcesAsWritten =>
                        (frame.data = "cached data" /\ frame.err = Nil)

\* the primary source failed, the secondary answered and the cache was not asked
C7_Witness ==
    /\ Returned("getDataWithFallback")
    /\ frame.sources = [primary |-> FALSE, secondary |-> TRUE, cache |-> TRUE]
    /\ frame.called = <<"primary", "secondary">>
    /\ frame.data = "secondary data"

\* ---- C8

\* C8 as stated: findUser returns the predefined sentinel errors, so that
\* errors.Is recognises ErrNotFound for "nonexistent", ErrInvalidInput for ""
\* and ErrPermissionDenied for "admin"; the switch over the sentinels prints
\* "User not found" for findUser("nonexistent") and never takes its default
\* branch.
C8_SentinelsRecognised ==
    (pc = "unit_done" /\ locals.fn = "findUser") =>
        /\ locals.id = "nonexistent" =>
                (Is(locals.l.err, locals.l.ErrNotFound) /\ LastLine = "User not found")
        /\ locals.id = "" => Is(locals.l.err, locals.l.ErrInvalidInput)
        /\ locals.id = "admin" => Is(locals.l.err, locals.l.ErrPermissionDenied)
        /\ locals.l.err # Nil =>
                LastLine \in {"User not found", "Invalid user ID", "Access denied"}

\* ---- C9

\* C9 as stated: whenever processUser rejects the user (empty name, age under
\* 18, empty email, email without "@"), the error is recognised by
\* IsValidationError and handleUserSubmission prints "Please fix the validation
\* issues and try again".
C9_ValidationMessageShown ==
    (pc = "unit_done" /\ locals.fn = "handleUserSubmission" /\ locals.err # Nil) =>
        /\ IsValidationError(locals.err)
        /\ LastLine = "Please fix the validation issues and try again"

\* ---- C10

C11_IsAndAsOnChain ==
    pc = "s5_4" =>
        /\ Is(locals.apiErr, locals.originalErr)
        /\ \E i \in 1..Len(locals.visited) :
                SameError(locals.visited[i], locals.originalErr)
        /\ As(locals.apiErr, "DatabaseError") = Nil
        /\ \A i \in 1..Len(locals.visited) : locals.visited[i].t # "DatabaseError"
        /\ stdout[Len(stdout) - 2] =
                "Yes! The API error contains the original connection timeout error"
        /\ LastLine = "No database error found in chain"

\* the third part of section 5 has printed its two lines
C11_Witness ==
    /\ pc = "s5_4"
    /\ locals.apiErr.t = "wrapError"
    /\ LastLine = "No database error found in chain"

\* ---- C12

\* the texts of the errors the three checks of validateUserComprehensive give
\* for a user, in the order name, age, email
C12_Expected(user) ==
    (IF Len(user.Name) < 2
        THEN <<"name too short: " \o Str(user.Name) \o " (minimum 2 characters)">>
        ELSE <<>>)
    \o (IF user.Age < 18
        THEN <<"age too young: " \o ToString(user.Age) \o " (minimum 18)">> ELSE <<>>)
    \o (IF \A i \in 1..Len(user.Email) : user.Email[i] # "@"
        THEN <<"invalid email format: " \o Str(user.Email)>> ELSE <<>>)

\* C12: validateUserComprehensive returns nil if and only if the name, age and
\* email checks all pass; otherwise it returns an *AggregatedError whose Errors
\* holds exactly one entry for each failing check, in the order name, age,
\* email, so ErrorCount() is between 1 and 3 and is the number of failing checks.
C12_CollectsAllErrors ==
    (pc = "unit_done" /\ locals.fn = "validateUserComprehensive") =>
        LET want == C12_Expected(locals.user)
        IN  /\ (locals.ret = Nil) <=> (want = <<>>)
            /\ locals.ret # Nil =>
                /\ locals.ret.t = "AggregatedError"
                /\ ErrorCount(locals.ret) = Len(want)
                /\ ErrorCount(locals.ret) \in 1..3
                /\ [i \in 1..Len(locals.ret.Errors) |-> ErrorText(locals.ret.Errors[i])]
                        = want

\* a user failing all three checks
C12_Witness ==
    /\ pc = "unit_done"
    /\ locals.fn = "validateUserComprehensive"
    /\ locals.user = NewUser(<<"A">>, 15, <<"a">>)
    /\ ErrorCount(locals.ret) = 3

\* ---- C13

\* C13 as stated: for the AggregatedError validateUserComprehensive returns for
\* an invalid user, HasValidationErrors() is true, so the aggregation demo
\* prints "Please fix the validation issues above" after listing the errors.
C13_HasValidationErrors ==
    (pc = "unit_done" /\ locals.fn = "validateUserComprehensive" /\ locals.ret # Nil) =>
        /\ HasValidationErrors(locals.ret)
        /\ LastLine = "Please fix the validation issues above"

----------------------------------------------------------------------------
(* Chapter 9: pointers (src/unnamed/part_000)                              *)
(*                                                                         *)
(* A slice is a record of the address of its backing array and its length; *)
(* a map value is the address of the map. The heap holds, by address, the  *)
(* backing arrays (sequences), the maps (sets of <<key, value>> pairs with *)
(* one pair per key) and the Config.                                       *)

\* the most calls the chapter-9 harness makes in one behaviour
MaxCalls == 5

NilSlice == [ptr |-> NilPtr, len |-> 0]

\* a heap with object obj allocated at address a
Alloc(h, a, obj) == (a :> obj) @@ h

Array(elems) == [t |-> "array", elems |-> elems]

Map(entries) == [t |-> "map", entries |-> entries]

\* s[k] = v (k counts from 0, as in Go)
SetIndex(h, s, k, v) == [h EXCEPT ![s.ptr].elems[k + 1] = v]

\* the elements of slice s
Elems(h, s) == IF s.ptr = NilPtr THEN <<>> ELSE SubSeq(h[s.ptr].elems, 1, s.len)

\* the entries of the map at address m (a nil map reads as an empty one)
Entries(h, m) == IF m = NilPtr THEN {} ELSE h[m].entries

\* m[key] = v
MapPut(entries, key, v) == {e \in entries : e[1] # key} \cup {<<key, v>>}

SetKey(h, m, key, v) == [h EXCEPT ![m].entries = MapPut(@, key, v)]

Person(name, age, email, active, hobbies, metadata) ==
    [Name |-> name, Age |-> age, Email |-> email, IsActive |-> active,
     Hobbies |-> hobbies, Metadata |-> metadata]

\* what %+v shows of a Person: the fields, with the slice and the map opened
View(h, p) ==
    [Name |-> p.Name, Age |-> p.Age, Email |-> p.Email, IsActive |-> p.IsActive,
     Hobbies |-> Elems(h, p.Hobbies), Metadata |-> Entries(h, p.Metadata)]

\* func (p Person) Introduce(): the receiver is a copy, which is only read
Introduce(p, o) ==
    [p |-> p,
     stdout |-> Println(o, "Hi, I'm " \o p.Name \o " and I'm " \o ToString(p.Age)
                           \o " years old.")]

\* func (p Person) GetAge() int
GetAge(p) == p.Age

\* variant: the receiver is a copy, the caller's Person is left as it was
HaveBirthday_onCopy(p, o) ==
    [p |-> p,
     stdout |-> Println(o, "Happy birthday! " \o p.Name \o " is now "
                           \o ToString(p.Age + 1) \o " years old.")]

\* func (p *Person) HaveBirthday(): p is the caller's Person, given back changed
HaveBirthday(p, o) ==
    LET q == [p EXCEPT !.Age = @ + 1]
    IN  [p |-> q,
         stdout |-> Println(o, "Happy birthday! " \o q.Name \o " is now "
                               \o ToString(q.Age) \o " years old.")]

\* func (p *Person) UpdateEmail(newEmail string)
UpdateEmail(p, newEmail, o) ==
    LET q == [p EXCEPT !.Email = newEmail]
    IN  [p |-> q, stdout |-> Println(o, "Email updated to: " \o q.Email)]

\* variant: the copy keeps the slice and the map of its source
DeepCopy_shallow(h, p, a) == [heap |-> h, ret |-> p]

\* func (p Person) DeepCopy() Person: hobbiesCopy is allocated at a,
\* metadataCopy at a + 1
DeepCopy(h, p, a) ==
    LET hobbiesCopy == [ptr |-> a, len |-> p.Hobbies.len]
        h1 == Alloc(h, a, Array(Elems(h, p.Hobbies)))
        metadataCopy == a + 1
        h2 == Alloc(h1, a + 1, Map(Entries(h, p.Metadata)))
    IN  [heap |-> h2,
         ret |-> Person(p.Name, p.Age, p.Email, p.IsActive, hobbiesCopy, metadataCopy)]

NewConfig == [t |-> "Config", Theme |-> "light", Language |-> "en",
              Timezone |-> "UTC", DebugMode |-> FALSE]

\* variant: every call constructs a Config
GetConfig_fresh(h, ci, a) ==
    [heap |-> Alloc(h, a, NewConfig), configInstance |-> a, ret |-> a, nextAddr |-> a + 1]

\* func GetConfig() *Config, with ci the value of configInstance at the call
GetConfig(h, ci, a) ==
    IF ci = NilPtr
        THEN [heap |-> Alloc(h, a, NewConfig), configInstance |-> a, ret |-> a,
              nextAddr |-> a + 1]
    ELSE [heap |-> h, configInstance |-> ci, ret |-> ci, nextAddr |-> a]

\* func (c *Config) SetTheme(theme string)
SetTheme(h, c, theme) == [h EXCEPT ![c].Theme = theme]

\* func (c *Config) GetTheme() string
GetTheme(h, c) == h[c].Theme

(* The harness: the statements of sections 5, 6 and 7, in any order.       *)
(* locals.people are the Person variables of the section, locals.origin    *)
(* says how each was made, locals.configs are the pointers GetConfig has   *)
(* returned, locals.last is the statement just run.                        *)

PointerLocals == [people |-> <<>>, origin |-> <<>>, configs |-> <<>>, calls |-> 0,
                  last |-> [fn |-> "none"]]

PointerInit ==
    /\ pc \in {"ch9_section5", "ch9_section6", "ch9_section7"}
    /\ frame = NoFrame
    /\ locals = PointerLocals
    /\ stdout = <<"">>
    /\ stderr = <<>>
    /\ draws = <<>>
    /\ nextAddr = 1
    /\ run = 1
    /\ prevOut = <<>>
    /\ prevDraws = <<>>
    /\ heap = EmptyHeap
    /\ configInstance = NilPtr

\* the statement c has run and has left the section's variables as ps
Ran(c, ps, os) ==
    [locals EXCEPT !.people = ps, !.origin = os, !.calls = @ + 1, !.last = c]

HobbyLists == {<<>>, <<"reading", "swimming">>}

MetadataMaps == {{}, {<<"city", "New York">>, <<"country", "USA">>}}

\* person := Person{Name: ..., Age: ..., Email: ..., IsActive: true}
PointerPersonLiteral ==
    /\ pc = "ch9_section5"
    /\ locals.calls < MaxCalls
    /\ Len(locals.people) < 2
    /\ \E who \in {<<"Alice", 25, "alice@example.com">>, <<"Bob", 30, "bob@example.com">>} :
        locals' = Ran([fn |-> "Person"],
                      Append(locals.people,
                             Person(who[1], who[2], who[3], TRUE, NilSlice, NilPtr)),
                      Append(locals.origin, [kind |-> "literal"]))
    /\ UNCHANGED <<pc, frame, stdout, stderr, draws, nextAddr, run, prevOut, prevDraws,
                   heap, configInstance>>

\* originalPerson := Person{Name: "Alice", Age: 25, Hobbies: []string{...},
\*                          Metadata: map[string]string{...}}
PointerPersonWithState ==
    /\ pc = "ch9_section7"
    /\ locals.calls < MaxCalls
    /\ Len(locals.people) = 0
    /\ \E hobbies \in HobbyLists, metadata \in MetadataMaps :
        /\ heap' = Alloc(Alloc(heap, nextAddr, Array(hobbies)),
                         nextAddr + 1, Map(metadata))
        /\ locals' = Ran([fn |-> "Person"],
                         <<Person("Alice", 25, "", FALSE,
                                  [ptr |-> nextAddr, len |-> Len(hobbies)],
                                  nextAddr + 1)>>,
                         <<[kind |-> "literal"]>>)
    /\ nextAddr' = nextAddr + 2
    /\ UNCHANGED <<pc, frame, stdout, stderr, draws, run, prevOut, prevDraws,
                   configInstance>>

\* person.Introduce()
PointerIntroduce ==
    /\ pc = "ch9_section5"
    /\ locals.calls < MaxCalls
    /\ \E i \in 1..Len(locals.people) :
        LET r == Introduce(locals.people[i], stdout)
        IN  /\ locals' = Ran([fn |-> "Introduce", i |-> i], locals.people, locals.origin)
            /\ stdout' = r.stdout
    /\ UNCHANGED <<pc, frame, stderr, draws, nextAddr, run, prevOut, prevDraws,
                   heap, configInstance>>

\* person.GetAge()
PointerGetAge ==
    /\ pc = "ch9_section5"
    /\ locals.calls < MaxCalls
    /\ \E i \in 1..Len(locals.people) :
        locals' = Ran([fn |-> "GetAge", i |-> i, ret |-> GetAge(locals.people[i])],
                      locals.people, locals.origin)
    /\ UNCHANGED <<pc, frame, stdout, stderr, draws, nextAddr, run, prevOut, prevDraws,
                   heap, configInstance>>

\* person.HaveBirthday(), which is (&person).HaveBirthday()
PointerHaveBirthday ==
    /\ pc = "ch9_section5"
    /\ locals.calls < MaxCalls
    /\ \E i \in 1..Len(locals.people) :
        LET r == HaveBirthday(locals.people[i], stdout)
        IN  /\ locals' = Ran([fn |-> "HaveBirthday", i |-> i],
                             [locals.people EXCEPT ![i] = r.p], locals.origin)
            /\ stdout' = r.stdout
    /\ UNCHANGED <<pc, frame, stderr, draws, nextAddr, run, prevOut, prevDraws,
                   heap, configInstance>>

\* person.UpdateEmail("alice.new@example.com")
PointerUpdateEmail ==
    /\ pc = "ch9_section5"
    /\ locals.calls < MaxCalls
    /\ \E i \in 1..Len(locals.people), newEmail \in {"alice.new@example.com"} :
        LET r == UpdateEmail(locals.people[i], newEmail, stdout)
        IN  /\ locals' = Ran([fn |-> "UpdateEmail", i |-> i, arg |-> newEmail],
                             [locals.people EXCEPT ![i] = r.p], locals.origin)
            /\ stdout' = r.stdout
    /\ UNCHANGED <<pc, frame, stderr, draws, nextAddr, run, prevOut, prevDraws,
                   heap, configInstance>>

\* shallowCopy := originalPerson
PointerAssign ==
    /\ pc = "ch9_section7"
    /\ locals.calls < MaxCalls
    /\ \E i \in 1..Len(locals.people) :
        locals' = Ran([fn |-> "assign", i |-> i],
                      Append(locals.people, locals.people[i]),
                      Append(locals.origin, [kind |-> "assign", from |-> i]))
    /\ UNCHANGED <<pc, frame, stdout, stderr, draws, nextAddr, run, prevOut, prevDraws,
                   heap, configInstance>>

\* deepCopy := originalPerson.DeepCopy()
PointerDeepCopy ==
    /\ pc = "ch9_section7"
    /\ locals.calls < MaxCalls
    /\ \E i \in 1..Len(locals.people) :
        LET r == DeepCopy(heap, locals.people[i], nextAddr)
        IN  /\ locals' = Ran([fn |-> "DeepCopy", i |-> i],
                             Append(locals.people, r.ret),
                             Append(locals.origin, [kind |-> "DeepCopy", from |-> i]))
            /\ heap' = r.heap
    /\ nextAddr' = nextAddr + 2
    /\ UNCHANGED <<pc, frame, stdout, stderr, draws, run, prevOut, prevDraws,
                   configInstance>>

\* shallowCopy.Hobbies[0] = "coding"; an index out of range would panic
PointerSetHobby ==
    /\ pc = "ch9_section7"
    /\ locals.calls < MaxCalls
    /\ \E i \in 1..Len(locals.people), k \in 0..1, v \in {"coding"} :
        /\ k < locals.people[i].Hobbies.len
        /\ heap' = SetIndex(heap, locals.people[i].Hobbies, k, v)
        /\ locals' = Ran([fn |-> "SetHobby", i |-> i, k |-> k, arg |-> v],
                         locals.people, locals.origin)
    /\ UNCHANGED <<pc, frame, stdout, stderr, draws, nextAddr, run, prevOut, prevDraws,
                   configInstance>>

\* shallowCopy.Metadata["city"] = "Boston"; a nil map would panic
PointerSetMetadata ==
    /\ pc = "ch9_section7"
    /\ locals.calls < MaxCalls
    /\ \E i \in 1..Len(locals.people), key \in {"city", "zip"}, v \in {"Boston"} :
        /\ locals.people[i].Metadata # NilPtr
        /\ heap' = SetKey(heap, locals.people[i].Metadata, key, v)
        /\ locals' = Ran([fn |-> "SetMetadata", i |-> i, key |-> key, arg |-> v],
                         locals.people, locals.origin)
    /\ UNCHANGED <<pc, frame, stdout, stderr, draws, nextAddr, run, prevOut, prevDraws,
                   configInstance>>

\* config1 := GetConfig()
PointerGetConfig ==
    /\ pc = "ch9_section6"
    /\ locals.calls < MaxCalls
    /\ LET r == GetConfig(heap, configInstance, nextAddr)
       IN  /\ heap' = r.heap
           /\ configInstance' = r.configInstance
           /\ nextAddr' = r.nextAddr
           /\ locals' = [locals EXCEPT !.configs = Append(@, r.ret), !.calls = @ + 1,
                                       !.last = [fn |-> "GetConfig", ret |-> r.ret]]
    /\ UNCHANGED <<pc, frame, stdout, stderr, draws, run, prevOut, prevDraws>>

\* config1.SetTheme("dark")
PointerSetTheme ==
    /\ pc = "ch9_section6"
    /\ locals.calls < MaxCalls
    /\ \E i \in 1..Len(locals.configs), theme \in {"dark", "light"} :
        /\ heap' = SetTheme(heap, locals.configs[i], theme)
        /\ locals' = [locals EXCEPT !.calls = @ + 1,
                                    !.last = [fn |-> "SetTheme", i |-> i, arg |-> theme]]
    /\ UNCHANGED <<pc, frame, stdout, stderr, draws, nextAddr, run, prevOut, prevDraws,
                   configInstance>>

\* fmt.Printf("config2 theme: %s\n", config2.GetTheme())
PointerGetTheme ==
    /\ pc = "ch9_section6"
    /\ locals.calls < MaxCalls
    /\ \E i \in 1..Len(locals.configs) :
        LET theme == GetTheme(heap, locals.configs[i])
        IN  /\ locals' = [locals EXCEPT !.calls = @ + 1,
                                        !.last = [fn |-> "GetTheme", i |-> i, ret |-> theme]]
            /\ stdout' = Println(stdout, "config" \o ToString(i) \o " theme: " \o theme)
    /\ UNCHANGED <<pc, frame, stderr, draws, nextAddr, run, prevOut, prevDraws,
                   heap, configInstance>>

PointerNext ==
    \/ PointerPersonLiteral \/ PointerIntroduce \/ PointerGetAge
    \/ PointerHaveBirthday \/ PointerUpdateEmail
    \/ PointerGetConfig \/ PointerSetTheme \/ PointerGetTheme
    \/ PointerPersonWithState \/ PointerAssign \/ PointerDeepCopy
    \/ PointerSetHobby \/ PointerSetMetadata

PointerSpec == PointerInit /\ [][PointerNext]_vars

\* ---- C14

\* the addresses at which a Config has been constructed
Configs == {a \in DOMAIN heap : heap[a].t = "Config"}

C14_OneInstance ==
    pc = "ch9_section6" =>
        /\ Cardinality(Configs) <= 1
        /\ (Len(locals.configs) = 0) = (configInstance = NilPtr)
        /\ \A i \in 1..Len(locals.configs) :
            locals.configs[i] = configInstance /\ configInstance \in Configs
        /\ locals.last.fn = "GetTheme" =>
            \A j \in 1..Len(locals.configs) :
                GetTheme(heap, locals.configs[j]) = locals.last.ret

C14_Call ==
    (pc = "ch9_section6" /\ locals'.calls = locals.calls + 1) =>
        /\ locals'.last.fn = "GetConfig" =>
            IF Len(locals.configs) = 0
                THEN Configs' = {locals'.last.ret} /\ heap'[locals'.last.ret].Theme = "light"
            ELSE heap' = heap /\ locals'.last.ret = locals.configs[1]
        /\ locals'.last.fn = "SetTheme" =>
            \A j \in 1..Len(locals.configs) :
                GetTheme(heap', locals.configs[j]) = locals'.last.arg

\* C14: in any sequence of GetConfig calls the Config is constructed at most
\* once, on the first call and with Theme "light"; every call returns the same
\* pointer; the theme set through one returned reference is the theme read
\* through every other.
C14_Singleton == []C14_OneInstance /\ [][C14_Call]_vars

\* two references, the theme set to "dark" and then read through the second
C14_Witness ==
    /\ pc = "ch9_section6"
    /\ Len(locals.configs) >= 2
    /\ locals.last.fn = "GetTheme"
    /\ locals.last.i = 2
    /\ locals.last.ret = "dark"

\* ---- C15

RECURSIVE Root(_, _)
\* the Person variable whose slice and map variable i has, through assignments
Root(os, i) == IF os[i].kind = "assign" THEN Root(os, os[i].from) ELSE i

C15_Shares ==
    pc = "ch9_section7" =>
        \A j \in 1..Len(locals.people) :
            locals.origin[j].kind = "assign" =>
                LET p == locals.people[locals.origin[j].from]
                    c == locals.people[j]
                IN  /\ c.Hobbies = p.Hobbies
                    /\ c.Metadata = p.Metadata
                    /\ View(heap, c) = View(heap, p)

C15_Statement ==
    (pc = "ch9_section7" /\ locals'.calls = locals.calls + 1) =>
        LET c == locals'.last
            n == Len(locals.people)
        IN  /\ c.fn = "DeepCopy" =>
                /\ View(heap', locals'.people[n + 1]) = View(heap, locals.people[c.i])
                /\ \A j \in 1..n :
                    View(heap', locals'.people[j]) = View(heap, locals.people[j])
            /\ c.fn \in {"SetHobby", "SetMetadata"} =>
                \A j \in 1..n :
                    IF Root(locals.origin, j) = Root(locals.origin, c.i)
                        THEN View(heap', locals'.people[j]) = View(heap', locals'.people[c.i])
                    ELSE View(heap', locals'.people[j]) = View(heap, locals.people[j])
            /\ c.fn = "SetHobby" =>
                Elems(heap', locals'.people[c.i].Hobbies)[c.k + 1] = c.arg
            /\ c.fn = "SetMetadata" =>
                <<c.key, c.arg>> \in Entries(heap', locals'.people[c.i].Metadata)

\* C15: the Person DeepCopy returns equals its source field by field, a later
\* change to a hobby or a metadata entry of either leaves the other as it was,
\* while a Person made by plain assignment has the slice and the map of its
\* source, so a change through one is seen through the other.
C15_DeepCopyIndependent == []C15_Shares /\ [][C15_Statement]_vars

\* the first hobby of a deep copy has been changed, that of its source has not
C15_Witness ==
    /\ pc = "ch9_section7"
    /\ locals.last.fn = "SetHobby"
    /\ locals.origin[locals.last.i].kind = "DeepCopy"
    /\ Elems(heap, locals.people[locals.last.i].Hobbies)[1] = "coding"
    /\ Elems(heap, locals.people[locals.origin[locals.last.i].from].Hobbies)[1] = "reading"
    /\ \E j \in 1..Len(locals.people) : locals.origin[j].kind = "assign"

\* ---- C16

C16_Call ==
    (pc = "ch9_section5" /\ locals'.calls = locals.calls + 1) =>
        LET c == locals'.last
        IN  /\ heap' = heap
            /\ c.fn = "HaveBirthday" =>
                locals'.people = [locals.people EXCEPT ![c.i].Age = @ + 1]
            /\ c.fn = "UpdateEmail" =>
                locals'.people = [locals.people EXCEPT ![c.i].Email = c.arg]
            /\ c.fn \in {"Introduce", "GetAge"} => locals'.people = locals.people
            /\ c.fn = "GetAge" => c.ret = locals.people[c.i].Age

\* C16: HaveBirthday adds exactly 1 to the Age of the caller's Person and
\* changes no other field, UpdateEmail changes only Email, Introduce and GetAge
\* leave every field of the caller's Person as it was.
C16_Receivers == [][C16_Call]_vars

\* Alice has had a birthday
C16_Witness ==
    /\ pc = "ch9_section5"
    /\ locals.last.fn = "HaveBirthday"
    /\ locals.people[locals.last.i].Name = "Alice"
    /\ locals.people[locals.last.i].Age = 26
    /\ LastLine = "Happy birthday! Alice is now 26 years old."

\* ---- C17

\* C17: once section5_DeferStatements is over, standard output holds the lines
\* of the function body in program order, then the six deferred lines in the
\* reverse of the order in which they were registered, "This runs LAST" last.
C17_DefersRunLast ==
    ((pc = "unit_done" /\ locals.fn = "section5_DeferStatements")
     \/ Returned("section5_DeferStatements")) =>
        LET deferred == <<"Committing transaction (deferred)",
                          "Closing database connection (deferred)",
                          "Closing file 'data.txt' (deferred cleanup)",
                          "This runs THIRD to last",
                          "This runs SECOND to last",
                          "This runs LAST (when function exits)">>
            n == Len(stdout) - 7
        IN  /\ n >= 1
            /\ SubSeq(stdout, n + 1, n + 7) = deferred \o <<"">>
            /\ stdout[n] = "Database operations complete!"
            /\ \A i \in 1..n : \A j \in 1..6 : stdout[i] # deferred[j]
            /\ LastLine = "This runs LAST (when function exits)"

----------------------------------------------------------------------------
(* Chapter 8: the sort helpers (src/08-interfaces/main.go)                 *)
(*                                                                         *)
(* A string to be compared is the sequence of its bytes. sortInts and      *)
(* sortStrings get a slice, so they work on the caller's backing array.    *)

\* the longest slice sorted
MaxLen == 3

\* the ints of the slices sorted
MaxInt == 3

\* the bytes of the strings sorted: 'A' and 'B'
Bytes == {65, 66}

\* the longest string sorted
MaxStrLen == 2

\* a < b on strings: byte by byte, a proper prefix is smaller
StrLess(a, b) ==
    \E k \in 1..Len(b) :
        /\ \A m \in 1..(k - 1) : m <= Len(a) /\ a[m] = b[m]
        /\ (k > Len(a) \/ a[k] < b[k])

\* nums[j] > nums[j+1], on ints in sortInts and on strings in sortStrings
Greater(fn, a, b) == IF fn = "sortInts" THEN a > b ELSE StrLess(b, a)

\* variant: the last pair of each pass is left out
InnerLoopCond_short(j, len, i) == j < len - i - 2

\* the condition of the inner loop
InnerLoopCond(j, len, i) == j < len - i - 1

\* the condition of the outer loop
OuterLoopCond(i, len) == i < len - 1

\* nums[j], nums[j+1] = nums[j+1], nums[j]
Swap(h, s, j) ==
    [h EXCEPT ![s.ptr].elems = [@ EXCEPT ![j + 1] = h[s.ptr].elems[j + 2],
                                         ![j + 2] = h[s.ptr].elems[j + 1]]]

Strings == UNION {[1..n -> Bytes] : n \in 0..MaxStrLen}

SortInputs(fn) ==
    IF fn = "sortInts" THEN UNION {[1..n -> 1..MaxInt] : n \in 0..MaxLen}
    ELSE UNION {[1..n -> Strings] : n \in 0..MaxLen}

\* numbers := []int{...}; sortInts(numbers), at the entry of sortInts
SortInit ==
    /\ pc = "sort_called"
    /\ \E fn \in {"sortInts", "sortStrings"} :
        \E input \in SortInputs(fn) :
            /\ heap = Alloc(EmptyHeap, 1, Array(input))
            /\ locals = [fn |-> fn, numbers |-> [ptr |-> 1, len |-> Len(input)],
                         original |-> input]
            /\ frame = [fn |-> fn, pc |-> "outer", nums |-> [ptr |-> 1, len |-> Len(input)],
                        i |-> 0, j |-> 0]
    /\ stdout = <<"">>
    /\ stderr = <<>>
    /\ draws = <<>>
    /\ nextAddr = 2
    /\ run = 1
    /\ prevOut = <<>>
    /\ prevDraws = <<>>
    /\ configInstance = NilPtr

\* for i := 0; i < len(nums)-1; ... : the test of the outer loop
SortOuter ==
    /\ frame.fn \in {"sortInts", "sortStrings"}
    /\ frame.pc = "outer"
    /\ IF OuterLoopCond(frame.i, frame.nums.len)
        THEN frame' = [frame EXCEPT !.pc = "inner", !.j = 0]
        ELSE frame' = [frame EXCEPT !.pc = "returned"]
    /\ UNCHANGED <<pc, locals, stdout, stderr, draws, nextAddr, run, prevOut, prevDraws,
                   heap, configInstance>>

\* for j := 0; j < len(nums)-i-1; j++ { if nums[j] > nums[j+1] { swap } }: the
\* test of the inner loop and, if it holds, one run of its body; else i++
SortInner ==
    /\ frame.fn \in {"sortInts", "sortStrings"}
    /\ frame.pc = "inner"
    /\ IF InnerLoopCond(frame.j, frame.nums.len, frame.i)
        THEN /\ frame' = [frame EXCEPT !.j = @ + 1]
             /\ LET nums == Elems(heap, frame.nums)
                IN  IF Greater(frame.fn, nums[frame.j + 1], nums[frame.j + 2])
                        THEN heap' = Swap(heap, frame.nums, frame.j)
                    ELSE UNCHANGED heap
        ELSE /\ frame' = [frame EXCEPT !.pc = "outer", !.i = @ + 1]
             /\ UNCHANGED heap
    /\ UNCHANGED <<pc, locals, stdout, stderr, draws, nextAddr, run, prevOut, prevDraws,
                   configInstance>>

SortNext == SortOuter \/ SortInner

SortSpec == SortInit /\ [][SortNext]_vars

\* the program runs the loops on: a step that can be taken is taken
FairSortSpec == SortSpec /\ WF_vars(SortNext)

\* ---- C18

\* the number of times v is in s
Count(s, v) == Cardinality({k \in 1..Len(s) : s[k] = v})

C18_Sorted ==
    (frame.pc = "returned") =>
        LET nums == Elems(heap, locals.numbers)
        IN  /\ Len(nums) = Len(locals.original)
            /\ \A k \in 1..(Len(nums) - 1) : ~Greater(locals.fn, nums[k], nums[k + 1])
            /\ \A k \in 1..Len(nums) :
                Count(nums, nums[k]) = Count(locals.original, nums[k])

\* C18: for every slice, sortInts and sortStrings return, and then the
\* caller's slice is in non-decreasing order (of ints, of strings byte by
\* byte) and holds every value as many times as before the call.
C18_BubbleSort == []C18_Sorted /\ <>(frame.pc = "returned")

\* a slice with a value twice, out of order before the call, has been sorted
C18_Witness ==
    /\ frame.pc = "returned"
    /\ locals.fn = "sortInts"
    /\ locals.original = <<3, 1, 1>>
    /\ Elems(heap, locals.numbers) = <<1, 1, 3>>

----------------------------------------------------------------------------
(* Chapter 6: range over a map (src/06-maps/main.go)                       *)
(*                                                                         *)
(* A map is a set of <<key, value>> pairs with one pair per key. Go does   *)
(* not fix the order in which range visits the keys of a map: each step of *)
(* a range loop takes any key not yet visited, and `draws` records the     *)
(* order taken. One loop of the program is run twice, as two runs of the   *)
(* program would run it.                                                   *)

bookRatings ==
    {<<"Go Programming", 5>>, <<"Python Basics", 4>>, <<"JavaScript Guide", 3>>,
     <<"Rust Tutorial", 5>>, <<"Java Reference", 2>>}

StudentInfo(age, grade, city, active) ==
    [age |-> age, grade |-> [t |-> "string", v |-> grade], city |-> city,
     active |-> active]

\* students at the call of findStudentsByGrade, Diana added by addStudent
students ==
    {<<"Alice", StudentInfo(20, "A", "New York", TRUE)>>,
     <<"Bob", StudentInfo(22, "B", "London", FALSE)>>,
     <<"Charlie", StudentInfo(19, "A", "Paris", TRUE)>>,
     <<"Diana", StudentInfo(21, "B", "Berlin", TRUE)>>}

Keys(m) == {e[1] : e \in m}

\* m[key], for a key of m
Lookup(m, key) == (CHOOSE e \in m : e[1] = key)[2]

\* variant: every student is taken
GradeMatches_any(info, grade) == TRUE

\* studentGrade, ok := info["grade"].(string); ok && studentGrade == grade
GradeMatches(info, grade) == info.grade.t = "string" /\ info.grade.v = grade

RECURSIVE JoinWords(_)
\* the elements of a []string as %v shows them between the brackets
JoinWords(ws) ==
    IF Len(ws) = 0 THEN ""
    ELSE IF Len(ws) = 1 THEN ws[1]
    ELSE ws[1] \o " " \o JoinWords(Tail(ws))

\* the range loops of section 3 and the loop of findStudentsByGrade
RangeLoops == {"books and ratings", "titles", "ratings", "high-rated",
               "findStudentsByGrade"}

RangedMap(loop) == IF loop = "findStudentsByGrade" THEN students ELSE bookRatings

\* the lines printed before the loop
Heading(loop) ==
    CASE loop = "books and ratings" -> <<"Range loops over maps:", "", "All books and ratings:">>
      [] loop = "titles" -> <<"", "Just the book titles:">>
      [] loop = "ratings" -> <<"", "Just the ratings:">>
      [] loop = "high-rated" -> <<"", "Filtering maps (high-rated books):">>
      [] loop = "findStudentsByGrade" -> <<"", "Function that finds students by criteria:">>

\* the lines the body of the loop prints for key
BodyLines(loop, key) ==
    LET rating == Lookup(bookRatings, key)
    IN  CASE loop = "books and ratings" ->
                <<"  " \o key \o ": " \o ToString(rating) \o " stars">>
          [] loop = "titles" -> <<"  " \o key>>
          [] loop = "ratings" -> <<"  " \o ToString(rating) \o " stars">>
          [] loop = "high-rated" ->
                IF rating >= 4
                    THEN <<"  " \o key \o ": " \o ToString(rating) \o " stars (recommended)">>
                ELSE <<>>
          [] loop = "findStudentsByGrade" -> <<>>

MapsLocals(loop, prev) == [loop |-> loop, gradeAStudents |-> <<>>, prevStudents |-> prev]

MapsInit ==
    /\ pc = "start"
    /\ \E loop \in RangeLoops : locals = MapsLocals(loop, <<>>)
    /\ frame = NoFrame
    /\ stdout = <<"">>
    /\ stderr = <<>>
    /\ draws = <<>>
    /\ nextAddr = 1
    /\ run = 1
    /\ prevOut = <<>>
    /\ prevDraws = <<>>
    /\ heap = EmptyHeap
    /\ configInstance = NilPtr

\* the heading is printed and the loop is entered
RangeStart ==
    /\ pc = "start"
    /\ stdout' = PrintAll(stdout, Heading(locals.loop))
    /\ frame' = [fn |-> locals.loop, pc |-> "range",
                 remaining |-> Keys(RangedMap(locals.loop)), result |-> <<>>]
    /\ pc' = "called"
    /\ UNCHANGED <<locals, stderr, draws, nextAddr, run, prevOut, prevDraws,
                   heap, configInstance>>

\* one iteration: range hands out a key not yet visited, the body runs
RangeStep ==
    /\ pc = "called"
    /\ frame.pc = "range"
    /\ \E key \in frame.remaining :
        /\ draws' = Append(draws, key)
        /\ stdout' = PrintAll(stdout, BodyLines(frame.fn, key))
        /\ frame' = [frame EXCEPT
                        !.remaining = @ \ {key},
                        !.result = IF /\ frame.fn = "findStudentsByGrade"
                                      /\ GradeMatches(Lookup(students, key), "A")
                                       THEN Append(@, key)
                                   ELSE @]
    /\ UNCHANGED <<pc, locals, stderr, nextAddr, run, prevOut, prevDraws,
                   heap, configInstance>>

\* every key has been visited; findStudentsByGrade returns and main prints
\* the names
RangeEnd ==
    /\ pc = "called"
    /\ frame.pc = "range"
    /\ frame.remaining = {}
    /\ frame' = [frame EXCEPT !.pc = "returned"]
    /\ IF frame.fn = "findStudentsByGrade"
        THEN /\ locals' = [locals EXCEPT !.gradeAStudents = frame.result]
             /\ stdout' = Println(stdout, "Students with grade A: ["
                                          \o JoinWords(frame.result) \o "]")
        ELSE UNCHANGED <<locals, stdout>>
    /\ pc' = "done"
    /\ UNCHANGED <<stderr, draws, nextAddr, run, prevOut, prevDraws, heap, configInstance>>

\* the program is run a second time
MapsRerun ==
    /\ pc = "done"
    /\ run = 1
    /\ prevOut' = stdout
    /\ prevDraws' = draws
    /\ run' = 2
    /\ pc' = "start"
    /\ frame' = NoFrame
    /\ locals' = MapsLocals(locals.loop, locals.gradeAStudents)
    /\ stdout' = <<"">>
    /\ draws' = <<>>
    /\ UNCHANGED <<stderr, nextAddr, heap, configInstance>>

MapsNext == RangeStart \/ RangeStep \/ RangeEnd \/ MapsRerun

MapsSpec == MapsInit /\ [][MapsNext]_vars

\* ---- C19

\* C19 as stated: a second run prints the lines of the first in the same
\* order, and findStudentsByGrade returns the names in the same order.
C19_SameTextEveryRun ==
    (run = 2 /\ pc = "done") =>
        /\ stdout = prevOut
        /\ locals.gradeAStudents = locals.prevStudents

\* C19, amended: two runs in which range visits the keys in the same order
\* print the same text; in any two runs the loops over bookRatings print the
\* same lines, each as often, and findStudentsByGrade returns the same names,
\* each matching name once, but the order of the lines and of the names is
\* the order in which range visits the keys, which may differ between runs.
C19_SameTextForSameOrder ==
    (run = 2 /\ pc = "done") =>
        /\ draws = prevDraws =>
            stdout = prevOut /\ locals.gradeAStudents = locals.prevStudents
        /\ Len(stdout) = Len(prevOut)
        /\ locals.loop # "findStudentsByGrade" =>
            \A k \in 1..Len(stdout) : Count(stdout, stdout[k]) = Count(prevOut, stdout[k])
        /\ locals.loop = "findStudentsByGrade" =>
            /\ Len(locals.gradeAStudents) = 2
            /\ Len(locals.prevStudents) = 2
            /\ {locals.gradeAStudents[k] : k \in 1..2} = {"Alice", "Charlie"}
            /\ {locals.prevStudents[k] : k \in 1..2} = {"Alice", "Charlie"}

\* two runs of findStudentsByGrade that return the names in different orders
C19_Witness ==
    /\ run = 2
    /\ pc = "done"
    /\ locals.loop = "findStudentsByGrade"
    /\ locals.prevStudents = <<"Alice", "Charlie">>
    /\ locals.gradeAStudents = <<"Charlie", "Alice">>
    /\ prevOut[Len(prevOut) - 1] = "Students with grade A: [Alice Charlie]"
    /\ LastLine = "Students with grade A: [Charlie Alice]"

----------------------------------------------------------------------------
(* Chapter 9, exercise 3: the LRU cache (src/09-pointers/README.md)        *)
(*                                                                         *)
(* The LRUCache and its CacheNodes are objects of the heap; c.nodes is a   *)
(* set of <<key, address of the node>> pairs. The text gives Get and Put   *)
(* and calls moveToFront, addToFront and removeTail without giving them:   *)
(* they are modelled as the operations of a doubly linked list with head   *)
(* the most recently used node, removeTail also taking the node out of     *)
(* c.nodes and counting size down.                                         *)

\* the largest capacity a cache is made with
MaxCapacity == 2

\* the most calls of Get and Put made on a cache
MaxCacheCalls == 4

CacheKeys == {"a", "b", "c"}

CacheValues == {"v1", "v2"}

CacheNode(key, value) ==
    [t |-> "CacheNode", Key |-> key, Value |-> value, Next |-> NilPtr, Prev |-> NilPtr]

\* func NewLRUCache(capacity int) *LRUCache: the object it allocates
NewLRUCache(capacity) ==
    [t |-> "LRUCache", capacity |-> capacity, size |-> 0, head |-> NilPtr,
     tail |-> NilPtr, nodes |-> {}]

\* node is taken out of the list of cache c
Unlink(h, c, node) ==
    LET prev == h[node].Prev
        next == h[node].Next
        h1 == IF prev # NilPtr THEN [h EXCEPT ![prev].Next = next]
              ELSE [h EXCEPT ![c].head = next]
        h2 == IF next # NilPtr THEN [h1 EXCEPT ![next].Prev = prev]
              ELSE [h1 EXCEPT ![c].tail = prev]
    IN  [h2 EXCEPT ![node].Prev = NilPtr, ![node].Next = NilPtr]

\* c.addToFront(node): node becomes the head of the list
addToFront(h, c, node) ==
    LET head == h[c].head
        h1 == [h EXCEPT ![node].Next = head, ![node].Prev = NilPtr]
        h2 == IF head # NilPtr THEN [h1 EXCEPT ![head].Prev = node]
              ELSE [h1 EXCEPT ![c].tail = node]
    IN  [h2 EXCEPT ![c].head = node]

\* c.moveToFront(node)
moveToFront(h, c, node) ==
    IF h[c].head = node THEN h ELSE addToFront(Unlink(h, c, node), c, node)

\* c.removeTail(): the least recently used node leaves the list and c.nodes
removeTail(h, c) ==
    LET tail == h[c].tail
    IN  IF tail = NilPtr THEN h
        ELSE [Unlink(h, c, tail) EXCEPT
                ![c].nodes = {e \in @ : e[1] # h[tail].Key},
                ![c].size = @ - 1]

\* func (c *LRUCache) Get(key string) interface{}; ret "nil" is Go's nil
Get(h, c, key) ==
    IF key \in Keys(h[c].nodes)
        THEN LET node == Lookup(h[c].nodes, key)
             IN  [heap |-> moveToFront(h, c, node), ret |-> h[node].Value]
    ELSE [heap |-> h, ret |-> "nil"]

\* variant: room is made before the key is looked up
Put_evictsFirst(h, c, key, value, a) ==
    LET full == h[c].size >= h[c].capacity
        h0 == IF full THEN removeTail(h, c) ELSE h
    IN  IF key \in Keys(h0[c].nodes)
            THEN LET node == Lookup(h0[c].nodes, key)
                 IN  [heap |-> moveToFront([h0 EXCEPT ![node].Value = value], c, node),
                      nextAddr |-> a, removeTail |-> full]
        ELSE LET h2 == addToFront(Alloc(h0, a, CacheNode(key, value)), c, a)
             IN  [heap |-> [h2 EXCEPT ![c].nodes = MapPut(@, key, a), ![c].size = @ + 1],
                  nextAddr |-> a + 1, removeTail |-> full]

\* func (c *LRUCache) Put(key string, value interface{}), with a the address
\* of newNode; removeTail says whether c.removeTail() was called
Put(h, c, key, value, a) ==
    IF key \in Keys(h[c].nodes)
        THEN LET node == Lookup(h[c].nodes, key)
             IN  [heap |-> moveToFront([h EXCEPT ![node].Value = value], c, node),
                  nextAddr |-> a, removeTail |-> FALSE]
    ELSE LET full == h[c].size >= h[c].capacity
             h1 == IF full THEN removeTail(h, c) ELSE h
             h2 == addToFront(Alloc(h1, a, CacheNode(key, value)), c, a)
         IN  [heap |-> [h2 EXCEPT ![c].nodes = MapPut(@, key, a), ![c].size = @ + 1],
              nextAddr |-> a + 1, removeTail |-> full]

\* cache := NewLRUCache(capacity)
CacheInit ==
    /\ pc = "cache"
    /\ \E capacity \in 0..MaxCapacity : heap = Alloc(EmptyHeap, 1, NewLRUCache(capacity))
    /\ locals = [cache |-> 1, calls |-> 0, last |-> [fn |-> "NewLRUCache"]]
    /\ frame = NoFrame
    /\ stdout = <<"">>
    /\ stderr = <<>>
    /\ draws = <<>>
    /\ nextAddr = 2
    /\ run = 1
    /\ prevOut = <<>>
    /\ prevDraws = <<>>
    /\ configInstance = NilPtr

\* cache.Get(key)
CacheGet ==
    /\ pc = "cache"
    /\ locals.calls < MaxCacheCalls
    /\ \E key \in CacheKeys :
        LET r == Get(heap, locals.cache, key)
        IN  /\ heap' = r.heap
            /\ locals' = [locals EXCEPT !.calls = @ + 1,
                             !.last = [fn |-> "Get", key |-> key, ret |-> r.ret]]
    /\ UNCHANGED <<pc, frame, stdout, stderr, draws, nextAddr, run, prevOut, prevDraws,
                   configInstance>>

\* cache.Put(key, value)
CachePut ==
    /\ pc = "cache"
    /\ locals.calls < MaxCacheCalls
    /\ \E key \in CacheKeys, value \in CacheValues :
        LET r == Put(heap, locals.cache, key, value, nextAddr)
        IN  /\ heap' = r.heap
            /\ nextAddr' = r.nextAddr
            /\ locals' = [locals EXCEPT !.calls = @ + 1,
                             !.last = [fn |-> "Put", key |-> key, value |-> value,
                                       exists |-> key \in Keys(heap[locals.cache].nodes),
                                       removeTail |-> r.removeTail]]
    /\ UNCHANGED <<pc, frame, stdout, stderr, draws, run, prevOut, prevDraws,
                   configInstance>>

CacheNext == CacheGet \/ CachePut

CacheSpec == CacheInit /\ [][CacheNext]_vars

\* ---- C20

C20_PutCall ==
    (pc = "cache" /\ locals'.calls = locals.calls + 1 /\ locals'.last.fn = "Put") =>
        LET c == locals.cache
            call == locals'.last
            nodes == heap[c].nodes
        IN  IF call.key \in Keys(nodes)
                THEN /\ heap'[c].nodes = nodes
                     /\ heap'[Lookup(nodes, call.key)].Value = call.value
                     /\ heap'[Lookup(nodes, call.key)].Key = call.key
                     /\ heap'[c].size = heap[c].size
                     /\ heap'[c].capacity = heap[c].capacity
                     /\ DOMAIN heap' = DOMAIN heap
                     /\ \A e \in nodes :
                         e[1] # call.key =>
                             /\ heap'[e[2]].Key = heap[e[2]].Key
                             /\ heap'[e[2]].Value = heap[e[2]].Value
                     /\ ~call.removeTail
            ELSE /\ call.removeTail = (heap[c].size >= heap[c].capacity)
                 /\ call.key \in Keys(heap'[c].nodes)
                 /\ heap'[Lookup(heap'[c].nodes, call.key)].Value = call.value

\* C20: Put of a key that c.nodes holds changes the Value of that key's node
\* to the new value and leaves size, c.nodes and every other entry as they
\* were, whatever size and capacity are, without calling removeTail; Put calls
\* removeTail exactly when the key is new and size >= capacity.
C20_PutUpdatesInPlace == [][C20_PutCall]_vars

\* a full cache of two entries, one of them just given a new value by Put
C20_Witness ==
    /\ pc = "cache"
    /\ locals.last.fn = "Put"
    /\ locals.last.exists
    /\ locals.last.value = "v2"
    /\ heap[locals.cache].capacity = 2
    /\ heap[locals.cache].size = 2
    /\ Keys(heap[locals.cache].nodes) = {"a", "b"}
    /\ heap[Lookup(heap[locals.cache].nodes, locals.last.key)].Value = "v2"
    /\ heap[locals.cache].head = Lookup(heap[locals.cache].nodes, locals.last.key)

====
